---- MODULE Spec2Model ----
(***************************************************************************)
(* VLCMediaPlayer (juce_libvlc): the audio ring buffer between the engine's *)
(* decoder callbacks and the audio-device pull, and the player's controller *)
(* operations (open, close, play, pause, stop, seek).                       *)
(*                                                                          *)
(* Three threads are modelled, each as a program counter with its locals:   *)
(*   "ctl"  the thread calling the public API,                              *)
(*   "dec"  the engine's decoder thread (audioUnlockCallback ->             *)
(*          processAudioData, audioFlushCallback),                          *)
(*   "aud"  the audio-device thread (audioDeviceIOCallback).                *)
(* Every std::atomic load, store or read-modify-write of the source is one  *)
(* step; the loops over the non-atomic sample storage take one step per     *)
(* iteration.                                                               *)
(***************************************************************************)
EXTENDS Integers, Sequences, FiniteSets, TLC

\* ------------------------------------------------------------------ bounds
\* Capacity of the ring per channel (audioRingBuffer->numSamples). The program
\* allocates 96000; the model keeps the arithmetic and shrinks the number.
BufNumSamples == 3
\* Frames the decoder hands over in the whole run.
MaxFrames == 5
\* Output channels the audio device may present.
MaxOutChannels == 3
\* seekGeneration is capped so the state space stays finite.
MaxSeeks == 1
\* The longest duration, in milliseconds, the engine reports for a media.
MaxDurationMs == 1
\* The latest time, in milliseconds, and the highest sample index a seek asks
\* for where it runs among the other operations.
MaxSeekMs == 0
MaxSeekSample == 1
\* The highest sample index of a seek followed by position polls only: past
\* 441, the first index above 0 that is a whole number of milliseconds.
MaxPollSample == 900

\* The largest width and height the engine reports to the format callback, and
\* the number of different pictures it decodes.
MaxVideoWidth == 2
MaxVideoHeight == 1
MaxPictures == 1

\* A width and a height whose product is 2^30 + 1: four bytes a pixel make
\* 2^32 + 4 bytes.
WideVideoWidth == 33025
WideVideoHeight == 32513

\* The most resize messages waiting on the message thread at once.
MaxPendingResize == 2

\* The longest duration, in milliseconds, the engine reports where only
\* open() and close() are followed.
MaxOpenDurationMs == 350

\* The latest position, in milliseconds, the engine plays to where only the
\* position is followed: 350 is the first whose product with the rate, in
\* doubles, falls short of the exact one.
MaxEngineMs == 350

\* ------------------------------------------------------- program constants
\* 2^32 / 4: unsigned is 32 bits wide, and (*width) * (*height) * 4 is
\* computed in it.
UnsignedRangeOver4 == 1073741824

\* Channels of the ring (make_unique<AudioBuffer> (2, 96000)).
BufNumChannels == 2

Silence == 0

\* std::atomic<double> currentSampleRate { 44100.0 }: never stored to.
SampleRate == 44100
\* What an output buffer holds before the callback touched it: the device
\* hands over memory the callback never reads, so one token stands for it.
Garbage == 0 - 1

Channels == 0 .. (BufNumChannels - 1)
Cells == 0 .. (BufNumSamples - 1)
\* Sizes of one decoder block and of one device block, in frames: at least one
\* frame and never more than the ring holds (2 seconds of audio).
WriteSizes == 1 .. BufNumSamples
BlockSizes == 1 .. BufNumSamples
OutChannelCounts == 1 .. MaxOutChannels

\* ----------------------------------------------------------------- helpers
jmin(a, b) == IF a < b THEN a ELSE b

\* The interleaved stereo block of the engine: frame f carries the float
\* audioData[i*2] for the left and audioData[i*2+1] for the right channel.
\* Frame f (f >= 1) is given the distinct values 2f and 2f+1.
SampleOf(ch, f) == 2 * f + ch
FrameOf(v) == v \div 2

\* static_cast<int64_t> of the double product num/den, num >= 0: the quotient
\* rounded toward zero. Where the exact quotient is a whole number the double
\* arithmetic can land just below it (0.35 * 44100.0 is 15434.999...), and
\* the cast then gives one less.
Truncations(num, den) ==
    LET q == num \div den
    IN IF num % den = 0 /\ q > 0 THEN {q - 1, q} ELSE {q}

\* seekToTime: timeInMs = static_cast<int64_t> (timeInSeconds * 1000.0), for
\* timeInSeconds = num / den.
SecondsToMs(num, den) == Truncations(num * 1000, den)

\* The power of two, and the binary exponent of the positive fraction
\* num / den: the e with 2^e <= num / den < 2^(e + 1).
RECURSIVE Pow2(_)
Pow2(n) == IF n = 0 THEN 1 ELSE 2 * Pow2(n - 1)

RECURSIVE Pow2Mod1000(_)
Pow2Mod1000(n) == IF n = 0 THEN 1 ELSE (2 * Pow2Mod1000(n - 1)) % 1000

RECURSIVE ExponentOf(_, _)
ExponentOf(num, den) ==
    IF num >= 2 * den THEN ExponentOf(num, 2 * den) + 1
    ELSE IF num < den THEN ExponentOf(2 * num, den) - 1
    ELSE 0

\* static_cast<double> (ms) / 1000.0 * sampleRate, ms > 0, in IEEE doubles
\* (53 bits, round to nearest). The quotient ms / 1000 is rounded to the
\* multiple m of 2^-k next to it, k = 52 - ExponentOf (ms, 1000); r is what
\* the division of ms * 2^k by 1000 leaves, and the quotient was rounded down
\* when r < 500. The product with the rate is then r * rate / (1000 * 2^k)
\* below the exact ms * rate / 1000. Where that is a whole number q, and the
\* gap exceeds half the spacing 2^(ExponentOf (q, 1) - 52) of the doubles at
\* q, the product is rounded to a double below q.
\* (350 / 1000.0 * 44100.0 is 15434.999999999998.)
ProductLandsBelow(ms) ==
    LET ex == ExponentOf(ms, 1000)
        q == (ms * SampleRate) \div 1000
        r == ((ms % 1000) * Pow2Mod1000(52 - ex)) % 1000
    IN /\ ms > 0
       /\ (ms * SampleRate) % 1000 = 0
       /\ r < 500
       /\ r * SampleRate > 1000 * Pow2(ExponentOf(q, 1) - ex - 1)

\* updateAudioPosition: static_cast<int64_t> (currentTimeMs / 1000.0 * sampleRate),
\* updateMediaInfo: static_cast<int64_t> (mediaDuration.load() * sampleRate).
\* The cast drops the fraction of the double product.
MsToSamplesNoRate(ms) == {ms}
MsToSamples(ms) ==
    LET q == (ms * SampleRate) \div 1000
    IN IF ProductLandsBelow(ms) THEN {q - 1} ELSE {q}

\* (pos + i) % numSamples
WrapToZero(pos, i) == IF pos + i >= BufNumSamples THEN 0 ELSE pos + i
Wrap(pos, i) == (pos + i) % BufNumSamples

\* processAudioData: jmin (numSamples, numSamples_of_ring - available)
SamplesToWriteNoRoom(n, avail) == n
SamplesToWrite(n, avail) == jmin(n, BufNumSamples - avail)

\* audioDeviceIOCallback: jmin (numSamples, availableSamples)
SamplesToReadAll(numSamples, avail) == numSamples
SamplesToRead(numSamples, avail) == jmin(numSamples, avail)

\* audioDeviceIOCallback: jmin (numOutputChannels, audioRingBuffer->numChannels)
CopyChannels(numOut) == jmin(numOut, BufNumChannels)

\* FloatVectorOperations::clear on every output channel.
ClearOutputSkipped(buf) == buf
ClearOutput(buf) == [c \in DOMAIN buf |-> [i \in DOMAIN buf[c] |-> Silence]]

\* The device's buffers as the callback receives them.
DeviceBuffers(numSamples, numOut) ==
    [c \in 1 .. numOut |-> [i \in 1 .. numSamples |-> Garbage]]

\* An entry of outputChannelData that is a null pointer, and the device's
\* buffers where the channels (from 1) of the set nulls are such entries.
\* ClearOutput leaves them alone: it clears the channels that are not null.
NullChannel == <<>>
DeviceBuffersWithNulls(numSamples, numOut, nulls) ==
    [c \in 1 .. numOut |->
        IF c \in nulls THEN NullChannel ELSE [i \in 1 .. numSamples |-> Garbage]]

ZeroData == [c \in Channels |-> [k \in Cells |-> Silence]]

VARIABLES
    vlcInstance,          \* libvlc_instance_t* is non-null
    mediaPlayer,          \* libvlc_media_player_t* is non-null
    currentMedia,         \* libvlc_media_t* is non-null
    isCurrentlyPlaying,   \* std::atomic<bool>
    hasAudioStream,       \* std::atomic<bool>
    hasVideoStream,       \* std::atomic<bool>
    currentAudioSample,   \* std::atomic<int64_t>
    seekGeneration,       \* std::atomic<int64_t>
    data,                 \* AudioBuffer::data[channel][index]
    writePosition,        \* AudioBuffer::writePosition
    readPosition,         \* AudioBuffer::readPosition
    availableSamples,     \* AudioBuffer::availableSamples
    out,                  \* outputChannelData while the callback runs
    th,                   \* per thread: program counter and locals
    nextFrame,            \* the engine: next frame the decoder will produce
    log,                  \* history: the ring operations since the last pull
    unread,               \* history: frames stored and not yet read, with cell
    overwrote,            \* history: a write hit the cell of an unread frame
    misdelivered,         \* history: a pull copied out another sample than
                          \*          the oldest unread ones, in order
    staleBelow,           \* history: frames below this precede a returned seek
    staleOut,             \* history: such a frame was copied out afterwards
    mediaDuration,        \* std::atomic<double>, kept in milliseconds; -1: -1.0
    totalAudioSamples,    \* std::atomic<int64_t>
    videoWidth,           \* std::atomic<int>
    videoHeight,          \* std::atomic<int>
    engineTime,           \* the engine: what libvlc_media_player_get_time
                          \*          reports, in ms; -1 without a position
    seekTarget,           \* history: the sample index of the seekToSample
                          \*          whose position the engine holds, else -1
    engineEnded,          \* the engine: it stopped playing on its own (end of
                          \*          the media, or an error)
    polled,               \* history: the sample index the position poll stored
                          \*          last since the position was reset, else -1
    videoCallbacks,       \* the engine: the video and format callbacks are
                          \*          registered on the player, with this
    fault,                \* history: a null pointer was dereferenced
    teardown,             \* history: the steps of shutdownVLC taken, in order
    postSeek,             \* history: the first frame decoded after the flush
                          \*          the engine made for a seek, 0 before it
    voutOpen,             \* the engine: its video output is set up (the format
                          \*          callback returned) since it last started
    audioDeviceManager,   \* AudioDeviceManager*: ptr, it is non-null;
                          \*          registered, a device manager holds the
                          \*          player as an audio callback
    videoComponent,       \* Component::SafePointer: non-null
    pendingResize,        \* the message thread: the callAsync messages of
                          \*          updateVideoSize not yet delivered
    videoFrameBuffer,     \* std::unique_ptr<uint8_t[]>: the bytes, or null
    videoFrameBufferSize, \* size_t
    currentVideoFrame,    \* juce::Image
    uiFrame               \* the caller: the juce::Image the last
                          \*          getCurrentVideoFrame() returned

player == <<vlcInstance, mediaPlayer, currentMedia, isCurrentlyPlaying,
            hasAudioStream, hasVideoStream, currentAudioSample, seekGeneration>>
ring == <<data, writePosition, readPosition, availableSamples>>
fifo == <<unread, overwrote, misdelivered>>
hist == <<log, fifo, staleBelow, staleOut>>
info == <<mediaDuration, totalAudioSamples, videoWidth, videoHeight>>
ext == <<info, engineTime, seekTarget>>
host == <<voutOpen, audioDeviceManager, videoComponent, pendingResize>>
life == <<fault, teardown, postSeek, host>>
frames == <<videoFrameBuffer, videoFrameBufferSize, currentVideoFrame, uiFrame>>
vlc == <<engineEnded, polled, videoCallbacks, life, frames>>
vars == <<player, ring, out, th, nextFrame, hist, ext, vlc>>

\* The ring as one value: what a call keeps of the state it began in.
Ring == [data |-> data, wp |-> writePosition, rp |-> readPosition,
         av |-> availableSamples, cur |-> currentAudioSample]

\* What the getters and the ring show.
Observed ==
    [media |-> currentMedia, playing |-> isCurrentlyPlaying,
     audio |-> hasAudioStream, video |-> hasVideoStream,
     duration |-> mediaDuration, total |-> totalAudioSamples,
     cur |-> currentAudioSample, width |-> videoWidth, height |-> videoHeight,
     gen |-> seekGeneration, ring |-> ring, engine |-> engineTime]

\* The state close() leaves, whatever seekGeneration is.
Closed ==
    Observed = [media |-> FALSE, playing |-> FALSE, audio |-> FALSE,
                video |-> FALSE, duration |-> 0 - 1, total |-> 0 - 1, cur |-> 0,
                width |-> 0, height |-> 0, gen |-> seekGeneration,
                ring |-> <<ZeroData, 0, 0, 0>>, engine |-> 0 - 1]

\* What a controller call keeps of the state it began in: whether the player
\* was closed, and the seek generation. A call that returns at its first
\* check keeps all of Observed instead.
Entry == [closed |-> Closed, gen |-> seekGeneration]

\* A thread between two calls.
IdleCtl == [pc |-> "idle", ret |-> <<>>, c |-> 0]
IdleDec == [pc |-> "idle", ret |-> <<>>, c |-> 0]
IdleAud == [pc |-> "idle"]
IdleVid == [pc |-> "idle"]

\* videoFrameBuffer before the first format callback; a default juce::Image.
NullFrameBuffer == [null |-> TRUE, bytes |-> <<>>]
NoImage == [valid |-> FALSE, width |-> 0, height |-> 0, pixels |-> <<>>]

\* A juce::Image is a counted reference to its pixel data, and a copy refers
\* to the data of the original. The image the caller holds either shares the
\* data of currentVideoFrame, or is the last reference to the data of an
\* image that currentVideoFrame has been assigned over (image: that data).
NothingReturned == [held |-> FALSE, shared |-> FALSE, image |-> NoImage]

\* The log holds at most the last two ring operations and starts afresh with
\* every clearing operation; a completed pull empties it. The locals arg (ctl)
\* and pre (dec, aud) keep, while a call runs, what the ring held when it began.
Push(l, d) ==
    IF d.op = "clear" THEN <<d>>
    ELSE IF Len(l) >= 2 THEN <<l[Len(l)], d>> ELSE Append(l, d)

\* ------------------------------------------------------------------- Init
\* The state the constructor leaves: initializeVLC either got an instance and
\* a player, or an instance only, or nothing; the ring is allocated and
\* cleared; nothing is loaded.
Constructed ==
    /\ currentAudioSample = 0
    /\ seekGeneration = 0
    /\ data = ZeroData
    /\ writePosition = 0
    /\ readPosition = 0
    /\ availableSamples = 0
    /\ out = <<>>
    /\ th = [ctl |-> IdleCtl, dec |-> IdleDec, aud |-> IdleAud, vid |-> IdleVid]
    /\ nextFrame = 1
    /\ log = <<>>
    /\ unread = <<>>
    /\ overwrote = FALSE
    /\ misdelivered = FALSE
    /\ staleBelow = 0
    /\ staleOut = FALSE
    /\ seekTarget = 0 - 1
    /\ engineEnded = FALSE
    /\ polled = 0 - 1
    /\ fault = FALSE
    /\ teardown = <<>>
    /\ postSeek = 0
    /\ voutOpen = FALSE
    /\ audioDeviceManager = [ptr |-> FALSE, registered |-> FALSE]
    /\ videoComponent = FALSE
    /\ pendingResize = 0
    /\ videoFrameBuffer = NullFrameBuffer
    /\ videoFrameBufferSize = 0
    /\ currentVideoFrame = NoImage
    /\ uiFrame = NothingReturned

NothingLoaded ==
    /\ currentMedia = FALSE
    /\ isCurrentlyPlaying = FALSE
    /\ hasAudioStream = FALSE
    /\ hasVideoStream = FALSE
    /\ mediaDuration = 0 - 1
    /\ totalAudioSamples = 0 - 1
    /\ videoWidth = 0
    /\ videoHeight = 0
    /\ engineTime = 0 - 1
    /\ videoCallbacks = FALSE

Init ==
    /\ vlcInstance \in BOOLEAN
    /\ mediaPlayer \in BOOLEAN
    /\ mediaPlayer => vlcInstance
    /\ NothingLoaded
    /\ Constructed

\* The state that open() of an audio file and play() leave when the engine
\* was initialised and nothing has been decoded yet.
AudioFilePlaying ==
    /\ vlcInstance = TRUE
    /\ mediaPlayer = TRUE
    /\ currentMedia = TRUE
    /\ isCurrentlyPlaying = TRUE
    /\ hasAudioStream = TRUE
    /\ hasVideoStream = FALSE
    /\ mediaDuration = 0 - 1
    /\ totalAudioSamples = 0 - 1
    /\ videoWidth = 0
    /\ videoHeight = 0
    /\ engineTime = 0
    /\ videoCallbacks = TRUE

InitPlaying == AudioFilePlaying /\ Constructed

\* The state that open() of a file with a video track of 2 x 1 and an audio
\* track, and play(), leave.
VideoFilePlaying ==
    /\ vlcInstance = TRUE
    /\ mediaPlayer = TRUE
    /\ currentMedia = TRUE
    /\ isCurrentlyPlaying = TRUE
    /\ hasAudioStream = TRUE
    /\ hasVideoStream = TRUE
    /\ mediaDuration = 0 - 1
    /\ totalAudioSamples = 0 - 1
    /\ videoWidth = 2
    /\ videoHeight = 1
    /\ engineTime = 0
    /\ videoCallbacks = TRUE

\* ------------------------------------------------- AudioBuffer::clear
\* clear() runs on the thread that called it: t is "ctl" (stop, close, seek)
\* or "dec" (audioFlushCallback). Three separate atomic stores, then the
\* storage of every channel is zeroed.
Goto(t, label) == th' = [th EXCEPT ![t].pc = label]

Return(t) ==
    th' = [th EXCEPT ![t].pc = Head(th[t].ret), ![t].ret = Tail(th[t].ret)]

ClearWritePosition(t) ==
    /\ th[t].pc = "clr_wp"
    /\ writePosition' = 0
    /\ Goto(t, "clr_rp")
    /\ UNCHANGED <<vlc, ext, player, data, readPosition, availableSamples, out, nextFrame, hist>>

ClearReadPosition(t) ==
    /\ th[t].pc = "clr_rp"
    /\ readPosition' = 0
    /\ Goto(t, "clr_av")
    /\ UNCHANGED <<vlc, ext, player, data, writePosition, availableSamples, out, nextFrame, hist>>

ClearAvailableSkipped(t) ==
    /\ th[t].pc = "clr_av"
    /\ unread' = <<>>
    /\ th' = [th EXCEPT ![t].pc = "clr_data", ![t].c = 0]
    /\ UNCHANGED <<vlc, ext, player, ring, out, nextFrame, log, overwrote, misdelivered,
                   staleBelow, staleOut>>

ClearAvailableFull(t) ==
    /\ th[t].pc = "clr_av"
    /\ availableSamples' = BufNumSamples
    /\ unread' = <<>>
    /\ th' = [th EXCEPT ![t].pc = "clr_data", ![t].c = 0]
    /\ UNCHANGED <<vlc, ext, player, data, writePosition, readPosition, out, nextFrame, log,
                   overwrote, misdelivered, staleBelow, staleOut>>

ClearAvailable(t) ==
    /\ th[t].pc = "clr_av"
    /\ availableSamples' = 0
    /\ unread' = <<>>
    /\ th' = [th EXCEPT ![t].pc = "clr_data", ![t].c = 0]
    /\ UNCHANGED <<vlc, ext, player, data, writePosition, readPosition, out, nextFrame, log,
                   overwrote, misdelivered, staleBelow, staleOut>>

ClearData(t) ==
    /\ th[t].pc = "clr_data"
    /\ data' = [data EXCEPT ![th[t].c] = [k \in Cells |-> Silence]]
    /\ IF th[t].c + 1 < BufNumChannels
         THEN th' = [th EXCEPT ![t].c = th[t].c + 1]
         ELSE Return(t)
    /\ UNCHANGED <<vlc, ext, player, writePosition, readPosition, availableSamples, out,
                   nextFrame, hist>>

\* --------------------------------------------- decoder thread: the write
\* audioUnlockCallback -> processAudioData (buffer, size), size / 8 = n frames.
\* The engine calls it on its decoder thread while a player handle exists.
ProcessLoadWritePos(n) ==
    /\ th.dec.pc = "idle"
    /\ mediaPlayer
    /\ nextFrame + n - 1 <= MaxFrames
    /\ th' = [th EXCEPT !.dec = [pc |-> "w_avail", ret |-> <<>>, c |-> 0, n |-> n,
                                 first |-> nextFrame, writePos |-> writePosition,
                                 samplesToWrite |-> 0, i |-> 0, pre |-> Ring]]
    /\ nextFrame' = nextFrame + n
    /\ UNCHANGED <<vlc, ext, player, ring, out, hist>>

ProcessLoadAvailable ==
    /\ th.dec.pc = "w_avail"
    /\ LET s == SamplesToWrite(th.dec.n, availableSamples) IN
         th' = [th EXCEPT !.dec.samplesToWrite = s,
                          !.dec.pc = IF s > 0 THEN "w_copy" ELSE "w_ret"]
    /\ UNCHANGED <<vlc, ext, player, ring, out, nextFrame, hist>>

ProcessCopyFrame ==
    /\ th.dec.pc = "w_copy"
    /\ LET i == th.dec.i
           bufferIndex == Wrap(th.dec.writePos, i)
           f == th.dec.first + i
       IN /\ data' = [data EXCEPT ![0][bufferIndex] = SampleOf(0, f),
                                  ![1][bufferIndex] = SampleOf(1, f)]
          /\ overwrote' = (overwrote \/ \E k \in DOMAIN unread :
                                            unread[k].cell = bufferIndex)
          /\ unread' = Append(unread, [f |-> f, cell |-> bufferIndex])
          /\ th' = [th EXCEPT !.dec.i = i + 1,
                              !.dec.pc = IF i + 1 < th.dec.samplesToWrite
                                           THEN "w_copy" ELSE "w_wp"]
    /\ UNCHANGED <<vlc, ext, player, writePosition, readPosition, availableSamples, out,
                   nextFrame, log, misdelivered, staleBelow, staleOut>>

ProcessStoreWritePos ==
    /\ th.dec.pc = "w_wp"
    /\ writePosition' = Wrap(th.dec.writePos, th.dec.samplesToWrite)
    /\ Goto("dec", "w_add")
    /\ UNCHANGED <<vlc, ext, player, data, readPosition, availableSamples, out, nextFrame, hist>>

\* availableSamples += samplesToWrite: one atomic read-modify-write.
ProcessAddAvailable ==
    /\ th.dec.pc = "w_add"
    /\ availableSamples' = availableSamples + th.dec.samplesToWrite
    /\ Goto("dec", "w_ret")
    /\ UNCHANGED <<vlc, ext, player, data, writePosition, readPosition, out, nextFrame, hist>>

ProcessReturn ==
    /\ th.dec.pc = "w_ret"
    /\ th' = [th EXCEPT !.dec = IdleDec]
    /\ log' = Push(log, [op |-> "write", n |-> th.dec.n, first |-> th.dec.first,
                         av0 |-> th.dec.pre.av])
    /\ UNCHANGED <<vlc, ext, player, ring, out, nextFrame, fifo, staleBelow, staleOut>>

\* --------------------------------------------- decoder thread: the flush
AudioFlushCallback ==
    /\ th.dec.pc = "idle"
    /\ mediaPlayer
    /\ th' = [th EXCEPT !.dec = [pc |-> "clr_wp", ret |-> <<"flush_ret">>,
                                 c |-> 0, pre |-> Ring]]
    /\ UNCHANGED <<vlc, ext, player, ring, out, nextFrame, hist>>

\* The flush the engine makes on the decoder's thread when it takes up the
\* position a seek has set: what it decodes from then on is audio of the new
\* position.
SeekFlushCallback ==
    /\ th.dec.pc = "idle"
    /\ mediaPlayer
    /\ postSeek = 0
    /\ \/ th.ctl.pc = "idle" /\ seekGeneration > 0
       \/ th.ctl.pc \in {"clr_wp", "clr_rp", "clr_av", "clr_data", "seek_ret"}
    /\ postSeek' = nextFrame
    /\ th' = [th EXCEPT !.dec = [pc |-> "clr_wp", ret |-> <<"flush_ret">>,
                                 c |-> 0, pre |-> Ring]]
    /\ UNCHANGED <<engineEnded, polled, videoCallbacks, fault, teardown, host, frames,
                   ext, player, ring, out, nextFrame, hist>>

AudioFlushReturn ==
    /\ th.dec.pc = "flush_ret"
    /\ th' = [th EXCEPT !.dec = IdleDec]
    /\ log' = Push(log, [op |-> "clear", by |-> "flush"])
    /\ UNCHANGED <<vlc, ext, player, ring, out, nextFrame, fifo, staleBelow, staleOut>>

\* ------------------------------------- audio thread: audioDeviceIOCallback
\* The output channels are cleared, then hasAudioStream is loaded.
CallbackClearAndLoadHasAudio(numSamples, numOut) ==
    /\ th.aud.pc = "idle"
    /\ out' = ClearOutput(DeviceBuffers(numSamples, numOut))
    /\ th' = [th EXCEPT !.aud = [pc |-> IF hasAudioStream THEN "a_playing" ELSE "a_ret",
                                 numSamples |-> numSamples, numOut |-> numOut,
                                 avail |-> 0, samplesToRead |-> 0, readPos |-> 0,
                                 ch |-> 0, i |-> 0, active |-> FALSE, pre |-> Ring]]
    /\ UNCHANGED <<vlc, ext, player, ring, nextFrame, hist>>

\* The same with null entries among the output channels.
CallbackWithNullChannels(numSamples, numOut, nulls) ==
    /\ th.aud.pc = "idle"
    /\ out' = ClearOutput(DeviceBuffersWithNulls(numSamples, numOut, nulls))
    /\ th' = [th EXCEPT !.aud = [pc |-> IF hasAudioStream THEN "a_playing" ELSE "a_ret",
                                 numSamples |-> numSamples, numOut |-> numOut,
                                 avail |-> 0, samplesToRead |-> 0, readPos |-> 0,
                                 ch |-> 0, i |-> 0, active |-> FALSE, pre |-> Ring]]
    /\ UNCHANGED <<vlc, ext, player, ring, nextFrame, hist>>

CallbackLoadIsPlaying ==
    /\ th.aud.pc = "a_playing"
    /\ th' = [th EXCEPT !.aud.pc = IF isCurrentlyPlaying THEN "a_avail" ELSE "a_ret",
                        !.aud.active = isCurrentlyPlaying]
    /\ UNCHANGED <<vlc, ext, player, ring, out, nextFrame, hist>>

CallbackLoadAvailable ==
    /\ th.aud.pc = "a_avail"
    /\ LET r == SamplesToRead(th.aud.numSamples, availableSamples) IN
         th' = [th EXCEPT !.aud.avail = availableSamples,
                          !.aud.samplesToRead = r,
                          !.aud.pc = IF r > 0 THEN "a_rp" ELSE "a_ret"]
    /\ UNCHANGED <<vlc, ext, player, ring, out, nextFrame, hist>>

CallbackLoadReadPos ==
    /\ th.aud.pc = "a_rp"
    /\ th' = [th EXCEPT !.aud.readPos = readPosition, !.aud.pc = "a_copy"]
    /\ UNCHANGED <<vlc, ext, player, ring, out, nextFrame, hist>>

\* dest[i] = src[(readPos + i) % numSamples], channel by channel. dest is
\* outputChannelData[channel] as it is: where it is null the store goes
\* through the null pointer, and the process is killed or the store is lost
\* and the callback goes on.
CallbackCopySample ==
    /\ th.aud.pc = "a_copy"
    /\ LET ch == th.aud.ch
           i == th.aud.i
           v == data[ch][Wrap(th.aud.readPos, i)]
           null == out[ch + 1] = NullChannel
       IN /\ out' = IF null THEN out ELSE [out EXCEPT ![ch + 1][i + 1] = v]
          /\ fault' = (fault \/ null)
          /\ misdelivered' = (misdelivered \/ i + 1 > Len(unread)
                                \/ v # SampleOf(ch, unread[i + 1].f))
          /\ staleOut' = (staleOut \/ (v # Silence /\ FrameOf(v) < staleBelow))
          /\ \E next \in IF null THEN {"a_copy", "crashed"} ELSE {"a_copy"} :
                th' = [th EXCEPT
                      !.aud.i = IF i + 1 < th.aud.samplesToRead THEN i + 1 ELSE 0,
                      !.aud.ch = IF i + 1 < th.aud.samplesToRead THEN ch ELSE ch + 1,
                      !.aud.pc = IF next = "crashed" THEN next
                                 ELSE IF \/ i + 1 < th.aud.samplesToRead
                                         \/ ch + 1 < CopyChannels(th.aud.numOut)
                                   THEN "a_copy" ELSE "a_storeRp"]
    /\ UNCHANGED <<engineEnded, polled, videoCallbacks, teardown, postSeek, host, frames, ext,
                   player, ring, nextFrame, log, unread, overwrote, staleBelow>>

CallbackStoreReadPos ==
    /\ th.aud.pc = "a_storeRp"
    /\ readPosition' = Wrap(th.aud.readPos, th.aud.samplesToRead)
    /\ unread' = SubSeq(unread, th.aud.samplesToRead + 1, Len(unread))
    /\ Goto("aud", "a_storeAv")
    /\ UNCHANGED <<vlc, ext, player, data, writePosition, availableSamples, out, nextFrame,
                   log, overwrote, misdelivered, staleBelow, staleOut>>

\* availableSamples = availableSamples_local - samplesToRead: a plain store of
\* the value loaded at the start of the callback.
CallbackStoreAvailable ==
    /\ th.aud.pc = "a_storeAv"
    /\ availableSamples' = th.aud.avail - th.aud.samplesToRead
    /\ Goto("aud", "a_pos")
    /\ UNCHANGED <<vlc, ext, player, data, writePosition, readPosition, out, nextFrame, hist>>

\* currentAudioSample += samplesToRead
CallbackAdvancePosition ==
    /\ th.aud.pc = "a_pos"
    /\ currentAudioSample' = currentAudioSample + th.aud.samplesToRead
    /\ Goto("aud", "a_ret")
    /\ UNCHANGED <<vlc, ext, vlcInstance, mediaPlayer, currentMedia, isCurrentlyPlaying,
                   hasAudioStream, hasVideoStream, seekGeneration, ring, out,
                   nextFrame, hist>>

\* The callback returns; the device takes the block.
CallbackReturn ==
    /\ th.aud.pc = "a_ret"
    /\ th' = [th EXCEPT !.aud = IdleAud]
    /\ out' = <<>>
    /\ log' = <<>>
    /\ UNCHANGED <<vlc, ext, player, ring, nextFrame, fifo, staleBelow, staleOut>>

\* ------------------------------------------------ controller: public API
\* What libvlc_media_tracks_get lists: whether there is an audio track, and
\* the <<width, height>> of the video track, <<>> without one.
NoTracks == [audio |-> FALSE, video |-> <<>>]
VideoTracks == {<<>>, <<2, 1>>}
\* What libvlc_media_get_duration returns: -1 before the parse is done, 0 for
\* an unknown duration, else milliseconds.
Durations == (0 - 1) .. MaxDurationMs

\* listeners.call: every registered listener receives the event, and sees
\* the player as it is at that moment.
NotifyListenersTwice(delivered, name) ==
    delivered \o <<[name |-> name, seen |-> Observed],
                   [name |-> name, seen |-> Observed]>>
NotifyListeners(delivered, name) ==
    Append(delivered, [name |-> name, seen |-> Observed])

CtlCall(op, label, ret, arg) ==
    th' = [th EXCEPT !.ctl = [pc |-> label, ret |-> ret, c |-> 0, op |-> op,
                              arg |-> arg, ok |-> FALSE, cut |-> 0,
                              events |-> <<>>, sets |-> 0, err |-> "",
                              pre |-> Entry, s |-> 0 - 1, t |-> <<0, 1>>,
                              tracks |-> NoTracks, durationMs |-> 0 - 1]]

CtlReturn == th' = [th EXCEPT !.ctl = IdleCtl]

\* play(): with a player and media, the engine's play and one store.
PlayAllowedWithoutMedia == mediaPlayer
PlayAllowed == mediaPlayer /\ currentMedia

Play ==
    /\ th.ctl.pc = "idle"
    /\ isCurrentlyPlaying' = IF PlayAllowed THEN TRUE ELSE isCurrentlyPlaying
    /\ engineTime' = IF PlayAllowed /\ (engineTime < 0 \/ engineEnded)
                        THEN 0 ELSE engineTime
    /\ engineEnded' = IF PlayAllowed THEN FALSE ELSE engineEnded
    /\ CtlCall("play", "play_ret", <<>>, isCurrentlyPlaying)
    /\ UNCHANGED <<polled, videoCallbacks, life, frames, info, seekTarget, vlcInstance, mediaPlayer, currentMedia, hasAudioStream,
                   hasVideoStream, currentAudioSample, seekGeneration, ring, out,
                   nextFrame, hist>>

\* pause(): with a player, the engine's pause and one store.
PauseResetsPosition ==
    /\ th.ctl.pc = "idle"
    /\ isCurrentlyPlaying' = IF mediaPlayer THEN FALSE ELSE isCurrentlyPlaying
    /\ currentAudioSample' = IF mediaPlayer THEN 0 ELSE currentAudioSample
    /\ CtlCall("pause", "pause_ret", <<>>, isCurrentlyPlaying)
    /\ UNCHANGED <<vlc, ext, vlcInstance, mediaPlayer, currentMedia, hasAudioStream,
                   hasVideoStream, seekGeneration, ring, out, nextFrame, hist>>

Pause ==
    /\ th.ctl.pc = "idle"
    /\ isCurrentlyPlaying' = IF mediaPlayer THEN FALSE ELSE isCurrentlyPlaying
    /\ CtlCall("pause", "pause_ret", <<>>, isCurrentlyPlaying)
    /\ UNCHANGED <<vlc, ext, vlcInstance, mediaPlayer, currentMedia, hasAudioStream,
                   hasVideoStream, currentAudioSample, seekGeneration, ring, out,
                   nextFrame, hist>>

PlayPauseReturn ==
    /\ th.ctl.pc \in {"play_ret", "pause_ret"}
    /\ CtlReturn
    /\ UNCHANGED <<vlc, ext, player, ring, out, nextFrame, hist>>

\* stop(): with a player handle, the playing flag, the position and the ring
\* are reset; without one nothing happens. libvlc_media_player_stop returns
\* when the engine's video output has been torn down: no video callback is
\* running then, and none starts before the next play.
EngineQuiet == th.vid.pc = "idle"

Stop ==
    /\ th.ctl.pc = "idle"
    /\ CtlCall("stop", "stop_flag", <<"stop_ret">>, availableSamples)
    /\ UNCHANGED <<vlc, ext, player, ring, out, nextFrame, hist>>

StopClearPlaying ==
    /\ th.ctl.pc = "stop_flag"
    /\ mediaPlayer => EngineQuiet
    /\ IF mediaPlayer
         THEN /\ isCurrentlyPlaying' = FALSE
              /\ engineTime' = 0 - 1
              /\ seekTarget' = 0 - 1
              /\ engineEnded' = FALSE
              /\ polled' = 0 - 1
              /\ voutOpen' = FALSE
              /\ Goto("ctl", "stop_pos")
         ELSE /\ isCurrentlyPlaying' = isCurrentlyPlaying
              /\ UNCHANGED <<engineTime, seekTarget, engineEnded, polled,
                             voutOpen>>
              /\ Return("ctl")
    /\ UNCHANGED <<videoCallbacks, fault, teardown, postSeek, audioDeviceManager,
                   videoComponent, pendingResize, frames, info, vlcInstance, mediaPlayer, currentMedia, hasAudioStream,
                   hasVideoStream, currentAudioSample, seekGeneration, ring, out,
                   nextFrame, hist>>

StopResetPosition ==
    /\ th.ctl.pc = "stop_pos"
    /\ currentAudioSample' = 0
    /\ Goto("ctl", "clr_wp")
    /\ UNCHANGED <<vlc, ext, vlcInstance, mediaPlayer, currentMedia, isCurrentlyPlaying,
                   hasAudioStream, hasVideoStream, seekGeneration, ring, out,
                   nextFrame, hist>>

StopReturn ==
    /\ th.ctl.pc = "stop_ret"
    /\ CtlReturn
    /\ log' = IF mediaPlayer THEN Push(log, [op |-> "clear", by |-> "stop"]) ELSE log
    /\ UNCHANGED <<vlc, ext, player, ring, out, nextFrame, fifo, staleBelow, staleOut>>

\* close(): stop(), then the media is detached and released, the flags and the
\* position are reset and the ring is cleared.
Close ==
    /\ th.ctl.pc = "idle"
    /\ CtlCall("close", "stop_flag", <<"close_media", "close_ret">>, availableSamples)
    /\ UNCHANGED <<vlc, ext, player, ring, out, nextFrame, hist>>

CloseReleaseMedia ==
    /\ th.ctl.pc = "close_media"
    /\ currentMedia' = FALSE
    /\ Goto("ctl", "close_video")
    /\ UNCHANGED <<vlc, ext, vlcInstance, mediaPlayer, isCurrentlyPlaying, hasAudioStream,
                   hasVideoStream, currentAudioSample, seekGeneration, ring, out,
                   nextFrame, hist>>

CloseResetHasVideo ==
    /\ th.ctl.pc = "close_video"
    /\ hasVideoStream' = FALSE
    /\ Goto("ctl", "close_audio")
    /\ UNCHANGED <<vlc, ext, vlcInstance, mediaPlayer, currentMedia, isCurrentlyPlaying,
                   hasAudioStream, currentAudioSample, seekGeneration, ring, out,
                   nextFrame, hist>>

CloseResetHasAudioSkipped ==
    /\ th.ctl.pc = "close_audio"
    /\ Goto("ctl", "close_duration")
    /\ UNCHANGED <<vlc, ext, player, ring, out, nextFrame, hist>>

CloseResetHasAudio ==
    /\ th.ctl.pc = "close_audio"
    /\ hasAudioStream' = FALSE
    /\ Goto("ctl", "close_duration")
    /\ UNCHANGED <<vlc, ext, vlcInstance, mediaPlayer, currentMedia, isCurrentlyPlaying,
                   hasVideoStream, currentAudioSample, seekGeneration, ring, out,
                   nextFrame, hist>>

CloseResetDuration ==
    /\ th.ctl.pc = "close_duration"
    /\ mediaDuration' = 0 - 1
    /\ Goto("ctl", "close_total")
    /\ UNCHANGED <<vlc, totalAudioSamples, videoWidth, videoHeight, engineTime,
                   seekTarget, player, ring, out, nextFrame, hist>>

CloseResetTotalSamplesSkipped ==
    /\ th.ctl.pc = "close_total"
    /\ Goto("ctl", "close_pos")
    /\ UNCHANGED <<vlc, ext, player, ring, out, nextFrame, hist>>

CloseResetTotalSamples ==
    /\ th.ctl.pc = "close_total"
    /\ totalAudioSamples' = 0 - 1
    /\ Goto("ctl", "close_pos")
    /\ UNCHANGED <<vlc, mediaDuration, videoWidth, videoHeight, engineTime,
                   seekTarget, player, ring, out, nextFrame, hist>>

CloseResetVideoSize ==
    /\ th.ctl.pc = "close_size"
    /\ videoWidth' = 0
    /\ videoHeight' = 0
    /\ Goto("ctl", "clr_wp")
    /\ UNCHANGED <<vlc, mediaDuration, totalAudioSamples, engineTime, seekTarget,
                   player, ring, out, nextFrame, hist>>

CloseResetPosition ==
    /\ th.ctl.pc = "close_pos"
    /\ currentAudioSample' = 0
    /\ Goto("ctl", "close_size")
    /\ UNCHANGED <<vlc, ext, vlcInstance, mediaPlayer, currentMedia, isCurrentlyPlaying,
                   hasAudioStream, hasVideoStream, seekGeneration, ring, out,
                   nextFrame, hist>>

CloseReturn ==
    /\ th.ctl.pc = "close_ret"
    /\ CtlReturn
    /\ log' = Push(log, [op |-> "clear", by |-> "close"])
    /\ UNCHANGED <<vlc, ext, player, ring, out, nextFrame, fifo, staleBelow, staleOut>>

\* open (media, error): close(), the checks, the media is created and handed
\* to the player, and updateMediaInfo publishes the track flags.
\* The file and the engine are read when the code reaches them:
\* exists: media.exists(); created: libvlc_media_new_path returned a handle;
\* audio, video: the parsed media lists a track of that type.
Open ==
    /\ th.ctl.pc = "idle"
    /\ CtlCall("open", "stop_flag", <<"close_media", "open_check">>, availableSamples)
    /\ UNCHANGED <<vlc, ext, player, ring, out, nextFrame, hist>>

OpenSucceedsWithoutEngine(exists, created) == exists /\ created
OpenSucceeds(exists, created) == exists /\ vlcInstance /\ mediaPlayer /\ created

\* The text open() writes to *error, in the order of its checks.
OpenErrorEmpty(exists, created) == ""
OpenError(exists, created) ==
    IF ~exists THEN "File does not exist: "
    ELSE IF ~(vlcInstance /\ mediaPlayer) THEN "libVLC not initialized"
    ELSE IF ~created THEN "Failed to create libVLC media from file"
    ELSE ""

\* errorGiven: the caller passed an error string to write to. With the media
\* created, setupVideoCallbacks registers the video and format callbacks.
OpenCreateMedia(exists, created, errorGiven) ==
    /\ th.ctl.pc = "open_check"
    /\ IF OpenSucceeds(exists, created)
         THEN /\ currentMedia' = TRUE
              /\ videoCallbacks' = TRUE
              /\ th' = [th EXCEPT !.ctl.pc = "open_duration", !.ctl.ok = TRUE,
                                  !.ctl.arg = errorGiven]
         ELSE /\ currentMedia' = currentMedia
              /\ videoCallbacks' = videoCallbacks
              /\ th' = [th EXCEPT !.ctl.pc = "open_ret", !.ctl.ok = FALSE,
                                  !.ctl.arg = errorGiven,
                                  !.ctl.err = IF errorGiven
                                                THEN OpenError(exists, created)
                                                ELSE ""]
    /\ UNCHANGED <<engineEnded, polled, life, frames, ext, vlcInstance, mediaPlayer, isCurrentlyPlaying, hasAudioStream,
                   hasVideoStream, currentAudioSample, seekGeneration, ring, out,
                   nextFrame, hist>>

\* updateMediaInfo: the duration, the total, the tracks, then mediaReady.
OpenPublishDurationAsGiven(durationMs) ==
    /\ th.ctl.pc = "open_duration"
    /\ mediaDuration' = durationMs
    /\ th' = [th EXCEPT !.ctl.durationMs = durationMs,
                        !.ctl.pc = IF durationMs > 0 /\ SampleRate > 0
                                     THEN "open_total" ELSE "open_tracks"]
    /\ UNCHANGED <<vlc, totalAudioSamples, videoWidth, videoHeight, engineTime,
                   seekTarget, player, ring, out, nextFrame, hist>>

OpenPublishDuration(durationMs) ==
    /\ th.ctl.pc = "open_duration"
    /\ mediaDuration' = IF durationMs > 0 THEN durationMs ELSE 0 - 1
    /\ th' = [th EXCEPT !.ctl.durationMs = durationMs,
                        !.ctl.pc = IF durationMs > 0 /\ SampleRate > 0
                                     THEN "open_total" ELSE "open_tracks"]
    /\ UNCHANGED <<vlc, totalAudioSamples, videoWidth, videoHeight, engineTime,
                   seekTarget, player, ring, out, nextFrame, hist>>

OpenPublishTotalSamples ==
    /\ th.ctl.pc = "open_total"
    /\ \E total \in MsToSamples(mediaDuration) :
          totalAudioSamples' = total
    /\ Goto("ctl", "open_tracks")
    /\ UNCHANGED <<vlc, mediaDuration, videoWidth, videoHeight, engineTime,
                   seekTarget, player, ring, out, nextFrame, hist>>

OpenReadTracks(audio, video) ==
    /\ th.ctl.pc = "open_tracks"
    /\ IF video # <<>>
         THEN videoWidth' = video[1] /\ videoHeight' = video[2]
         ELSE UNCHANGED <<videoWidth, videoHeight>>
    /\ th' = [th EXCEPT !.ctl.pc = "open_audio",
                        !.ctl.tracks = [audio |-> audio, video |-> video]]
    /\ UNCHANGED <<vlc, mediaDuration, totalAudioSamples, engineTime, seekTarget,
                   player, ring, out, nextFrame, hist>>

OpenPublishHasAudio ==
    /\ th.ctl.pc = "open_audio"
    /\ hasAudioStream' = th.ctl.tracks.audio
    /\ Goto("ctl", "open_video")
    /\ UNCHANGED <<vlc, ext, vlcInstance, mediaPlayer, currentMedia, isCurrentlyPlaying,
                   hasVideoStream, currentAudioSample, seekGeneration, ring, out,
                   nextFrame, hist>>

OpenPublishHasVideo ==
    /\ th.ctl.pc = "open_video"
    /\ hasVideoStream' = (th.ctl.tracks.video # <<>>)
    /\ Goto("ctl", "open_notify")
    /\ UNCHANGED <<vlc, ext, vlcInstance, mediaPlayer, currentMedia, isCurrentlyPlaying,
                   hasAudioStream, currentAudioSample, seekGeneration, ring, out,
                   nextFrame, hist>>

OpenNotifyMediaReady ==
    /\ th.ctl.pc = "open_notify"
    /\ th' = [th EXCEPT !.ctl.pc = "open_ret",
                        !.ctl.events = NotifyListeners(th.ctl.events, "mediaReady")]
    /\ UNCHANGED <<vlc, ext, player, ring, out, nextFrame, hist>>

OpenReturn ==
    /\ th.ctl.pc = "open_ret"
    /\ CtlReturn
    /\ log' = Push(log, [op |-> "clear", by |-> "open"])
    /\ UNCHANGED <<vlc, ext, player, ring, out, nextFrame, fifo, staleBelow, staleOut>>

\* seekToTime: without a player or media it returns false at once; otherwise
\* ++seekGeneration, the engine's set_time, clear(), return true.
\* seekToSample: needs a player and an audio stream (currentSampleRate is
\* 44100 and never changed), then is seekToTime.
\* The time asked for is the fraction t[1] / t[2] of a second; s is the sample
\* index of a seekToSample, -1 in a seekToTime.
SeekToTimeEnter(op, s, t) ==
    IF mediaPlayer /\ currentMedia
      THEN th' = [th EXCEPT !.ctl = [pc |-> "seek_gen", ret |-> <<"seek_ret">>,
                                     c |-> 0, op |-> op, arg |-> availableSamples,
                                     ok |-> TRUE, cut |-> 0,
                                     events |-> <<>>, sets |-> 0, err |-> "",
                                     pre |-> Entry, s |-> s, t |-> t,
                                     tracks |-> NoTracks]]
      ELSE th' = [th EXCEPT !.ctl = [pc |-> "seek_ret", ret |-> <<>>,
                                     c |-> 0, op |-> op, arg |-> 0,
                                     ok |-> FALSE, cut |-> 0,
                                     events |-> <<>>, sets |-> 0, err |-> "",
                                     pre |-> Observed, s |-> s, t |-> t,
                                     tracks |-> NoTracks]]

\* seekToTime (ms / 1000.0)
SeekToTime(ms) ==
    /\ th.ctl.pc = "idle"
    /\ seekGeneration < MaxSeeks
    /\ SeekToTimeEnter("seekToTime", 0 - 1, <<ms, 1000>>)
    /\ UNCHANGED <<vlc, ext, player, ring, out, nextFrame, hist>>

\* seekToSample (s): timeInSeconds = s / sampleRate
SeekToSampleAllowedWithoutAudio == mediaPlayer
SeekToSampleAllowed == mediaPlayer /\ hasAudioStream /\ SampleRate > 0

SeekToSample(s) ==
    /\ th.ctl.pc = "idle"
    /\ seekGeneration < MaxSeeks
    /\ IF SeekToSampleAllowed
         THEN CtlCall("seekToSample", "seek_chk", <<>>, s)
         ELSE th' = [th EXCEPT !.ctl = [pc |-> "seek_ret", ret |-> <<>>,
                                        c |-> 0, op |-> "seekToSample", arg |-> s,
                                        ok |-> FALSE, cut |-> 0,
                                        events |-> <<>>, sets |-> 0, err |-> "",
                                        pre |-> Observed, s |-> s, t |-> <<0, 1>>,
                                        tracks |-> NoTracks]]
    /\ UNCHANGED <<vlc, ext, player, ring, out, nextFrame, hist>>

SeekToSampleCallsSeekToTime ==
    /\ th.ctl.pc = "seek_chk"
    /\ SeekToTimeEnter("seekToSample", th.ctl.arg, <<th.ctl.arg, SampleRate>>)
    /\ UNCHANGED <<vlc, ext, player, ring, out, nextFrame, hist>>

SeekIncrementGenerationSkipped ==
    /\ th.ctl.pc = "seek_gen"
    /\ Goto("ctl", "seek_time")
    /\ UNCHANGED <<vlc, ext, player, ring, out, nextFrame, hist>>

SeekIncrementGeneration ==
    /\ th.ctl.pc = "seek_gen"
    /\ seekGeneration' = seekGeneration + 1
    /\ Goto("ctl", "seek_time")
    /\ UNCHANGED <<vlc, ext, vlcInstance, mediaPlayer, currentMedia, isCurrentlyPlaying,
                   hasAudioStream, hasVideoStream, currentAudioSample, ring, out,
                   nextFrame, hist>>

\* A write the decoder thread has begun and not finished.
WriteInProgress == th.dec.pc \in {"w_avail", "w_copy", "w_wp", "w_add"}

\* libvlc_media_player_set_time: from here on the engine decodes at the new
\* position. The frames of a decoder callback that has already begun are of
\* the old one: cut is the first frame after them, 0 if there is none.
SeekSetTime ==
    /\ th.ctl.pc = "seek_time"
    /\ \E timeInMs \in SecondsToMs(th.ctl.t[1], th.ctl.t[2]) :
          engineTime' = timeInMs
    /\ seekTarget' = th.ctl.s
    /\ th' = [th EXCEPT !.ctl.pc = "clr_wp",
                        !.ctl.sets = th.ctl.sets + 1,
                        !.ctl.cut = IF WriteInProgress THEN nextFrame ELSE 0]
    /\ UNCHANGED <<vlc, info, player, ring, out, nextFrame, hist>>

SeekReturn ==
    /\ th.ctl.pc = "seek_ret"
    /\ CtlReturn
    /\ staleBelow' = IF th.ctl.ok THEN th.ctl.cut ELSE staleBelow
    /\ log' = IF th.ctl.ok THEN Push(log, [op |-> "clear", by |-> "seek"]) ELSE log
    /\ UNCHANGED <<vlc, ext, player, ring, out, nextFrame, fifo, staleOut>>

\* ------------------------------------- the position timer: timerCallback
\* updateAudioPosition runs on the timer's thread, the one the controller is
\* called on. reported is what libvlc_media_player_get_time returns.
EngineReports == {engineTime, 0 - 1}

TimerCallbackWhilePaused(reported) ==
    /\ th.ctl.pc = "idle"
    /\ IF mediaPlayer /\ reported >= 0 /\ SampleRate > 0
         THEN CtlCall("timer", "timer_store", <<"timer_ret">>, reported)
         ELSE CtlCall("timer", "timer_ret", <<>>, reported)
    /\ UNCHANGED <<vlc, ext, player, ring, out, nextFrame, hist>>

TimerCallback(reported) ==
    /\ th.ctl.pc = "idle"
    /\ IF mediaPlayer /\ isCurrentlyPlaying /\ reported >= 0 /\ SampleRate > 0
         THEN CtlCall("timer", "timer_store", <<"timer_ret">>, reported)
         ELSE CtlCall("timer", "timer_ret", <<>>, reported)
    /\ UNCHANGED <<vlc, ext, player, ring, out, nextFrame, hist>>

TimerStorePosition ==
    /\ th.ctl.pc = "timer_store"
    /\ \E newSamplePosition \in MsToSamples(th.ctl.arg) :
          /\ currentAudioSample' = newSamplePosition
          /\ polled' = newSamplePosition
    /\ th' = [th EXCEPT !.ctl.pc = "timer_ret", !.ctl.ret = <<>>, !.ctl.ok = TRUE]
    /\ UNCHANGED <<engineEnded, videoCallbacks, life, frames, ext, vlcInstance, mediaPlayer, currentMedia, isCurrentlyPlaying,
                   hasAudioStream, hasVideoStream, seekGeneration, ring, out,
                   nextFrame, hist>>

TimerReturn ==
    /\ th.ctl.pc = "timer_ret"
    /\ CtlReturn
    /\ UNCHANGED <<vlc, ext, player, ring, out, nextFrame, hist>>

TimerStep == TimerStorePosition \/ TimerReturn

TimerBegin == \E reported \in EngineReports : TimerCallback(reported)

\* ------------------------------------------ engine video callbacks (vmem)
\* The callbacks run on the engine's video output thread, "vid". Each is one
\* step, but for the conversion loop of the display callback, and the thread
\* stays in the callback until it returns.
\* The engine calls them while they are registered on a player that has a
\* position (it plays or is paused).
VideoCallbackMayStart == videoCallbacks /\ mediaPlayer /\ engineTime >= 0

\* The engine sets its video output up, with the format callback, before it
\* locks or displays a picture.
VideoOutputOpen == VideoCallbackMayStart /\ voutOpen

\* *width * 4 and (*width) * (*height) * 4, in unsigned 32-bit arithmetic:
\* the size is the product modulo 2^32 (written for a width * height below
\* 2^31, and a width below 2^30).
PitchOf(width) == width * 4
FrameBufferSizeOfRGB(width, height) == width * height * 3
FrameBufferSize(width, height) == ((width * height) % UnsignedRangeOver4) * 4

\* The bytes the engine decodes picture p to, in the order R, G, B, A.
Picture(p, size) == [k \in 1 .. size |-> (64 * p + k) % 256]

\* What the getters, the ring and the frame store show.
Adapter == <<Observed, frames>>

\* The locals of a video callback; was: the size of the stored image when
\* the callback began.
VideoCall(entry, result) ==
    [pc |-> "v_ret", entry |-> entry, result |-> result, w |-> 0, h |-> 0,
     chroma |-> "", pitches |-> 0, lines |-> 0, created |-> FALSE, i |-> 0,
     was |-> <<currentVideoFrame.width, currentVideoFrame.height>>]

\* videoFormatCallback with data and *data non-null: RV32, updateVideoSize,
\* the pitch and the lines, and a new zeroed buffer.
VideoFormatCallback(width, height) ==
    /\ th.vid.pc = "idle"
    /\ VideoCallbackMayStart
    /\ videoWidth' = width
    /\ videoHeight' = height
    /\ videoFrameBufferSize' = FrameBufferSize(width, height)
    /\ videoFrameBuffer' =
          [null |-> FALSE,
           bytes |-> [k \in 1 .. FrameBufferSize(width, height) |-> 0]]
    /\ th' = [th EXCEPT !.vid = [VideoCall("videoFormat", 1) EXCEPT
                                    !.w = width, !.h = height,
                                    !.chroma = "RV32",
                                    !.pitches = PitchOf(width),
                                    !.lines = height]]
    /\ videoComponent => pendingResize < MaxPendingResize
    /\ pendingResize' = IF videoComponent THEN pendingResize + 1
                        ELSE pendingResize
    /\ voutOpen' = TRUE
    /\ UNCHANGED <<engineEnded, polled, videoCallbacks, fault, teardown, postSeek,
                   audioDeviceManager, videoComponent, currentVideoFrame,
                   uiFrame, mediaDuration, totalAudioSamples, engineTime,
                   seekTarget, player, ring, out, nextFrame, hist>>

\* videoLockCallback: with a buffer, *planes is the buffer, and the engine
\* decodes the next picture, p, into it; without one it returns nullptr.
VideoLockCallback(p) ==
    /\ th.vid.pc = "idle"
    /\ VideoOutputOpen
    /\ videoFrameBuffer' =
          IF videoFrameBuffer.null THEN videoFrameBuffer
          ELSE [null |-> FALSE, bytes |-> Picture(p, Len(videoFrameBuffer.bytes))]
    /\ th' = [th EXCEPT !.vid =
                 VideoCall("videoLock", IF videoFrameBuffer.null THEN 0 ELSE 1)]
    /\ UNCHANGED <<engineEnded, polled, videoCallbacks, life, videoFrameBufferSize,
                   currentVideoFrame, uiFrame, ext, player, ring, out, nextFrame,
                   hist>>

\* updateVideoFrameFromBuffer: pixel i (from 1, row by row) of the image gets
\* the source bytes R, G, B, A at the offsets 2, 1, 0, 3.
ConvertPixelUnswapped(bytes, i) ==
    [o \in 0 .. 3 |->
        IF (i - 1) * 4 + o + 1 <= Len(bytes)
          THEN bytes[(i - 1) * 4 + o + 1] ELSE Garbage]
ConvertPixel(bytes, i) ==
    LET src(o) == IF (i - 1) * 4 + o + 1 <= Len(bytes)
                    THEN bytes[(i - 1) * 4 + o + 1] ELSE Garbage
    IN [o \in 0 .. 3 |-> IF o = 0 THEN src(2)
                         ELSE IF o = 2 THEN src(0) ELSE src(o)]

\* videoDisplayCallback -> updateVideoFrameFromBuffer. Without a buffer the
\* lock returned no picture and the callback returns at once. Otherwise the
\* frame mutex is taken and held to the end of the conversion; an image of
\* another size is replaced by a new, cleared one, and the data of the old
\* one is left to the copy the caller holds.
ClearedImage(width, height) ==
    [valid |-> TRUE, width |-> width, height |-> height,
     pixels |-> [i \in 1 .. (width * height) |-> [o \in 0 .. 3 |-> 0]]]

VideoDisplayCallback ==
    /\ th.vid.pc = "idle"
    /\ VideoOutputOpen
    /\ LET width == videoWidth
           height == videoHeight
           skip == \/ videoFrameBuffer.null
                   \/ videoFrameBufferSize = 0
                   \/ width <= 0
                   \/ height <= 0
           fresh == \/ ~currentVideoFrame.valid
                    \/ currentVideoFrame.width # width
                    \/ currentVideoFrame.height # height
       IN /\ currentVideoFrame' =
                IF ~skip /\ fresh THEN ClearedImage(width, height)
                ELSE currentVideoFrame
          /\ uiFrame' =
                IF ~skip /\ fresh /\ uiFrame.shared
                  THEN [uiFrame EXCEPT !.shared = FALSE,
                                       !.image = currentVideoFrame]
                  ELSE uiFrame
          /\ th' = [th EXCEPT !.vid = [VideoCall("videoDisplay", 0) EXCEPT
                                          !.pc = IF skip THEN "v_ret"
                                                 ELSE "v_convert",
                                          !.w = width, !.h = height,
                                          !.i = 1,
                                          !.created = ~skip /\ fresh]]
    /\ UNCHANGED <<engineEnded, polled, videoCallbacks, life, videoFrameBuffer,
                   videoFrameBufferSize, ext, player, ring, out, nextFrame, hist>>

\* One pass of the loops over y and x: the pixel is written into the data of
\* currentVideoFrame. After the last one the mutex is released.
VideoConvertPixel ==
    /\ th.vid.pc = "v_convert"
    /\ currentVideoFrame' =
          [currentVideoFrame EXCEPT
              !.pixels[th.vid.i] = ConvertPixel(videoFrameBuffer.bytes, th.vid.i)]
    /\ th' = [th EXCEPT !.vid.i = th.vid.i + 1,
                        !.vid.pc = IF th.vid.i < th.vid.w * th.vid.h
                                     THEN "v_convert" ELSE "v_ret"]
    /\ UNCHANGED <<engineEnded, polled, videoCallbacks, life, videoFrameBuffer,
                   videoFrameBufferSize, uiFrame, ext, player, ring, out,
                   nextFrame, hist>>

\* getCurrentVideoFrame(), on the caller's thread: under the frame mutex, a
\* copy of currentVideoFrame is returned.
VideoFrameMutexFree == th.vid.pc # "v_convert"

GetCurrentVideoFrame ==
    /\ th.ctl.pc = "idle"
    /\ VideoFrameMutexFree
    /\ uiFrame' = [held |-> TRUE, shared |-> currentVideoFrame.valid,
                   image |-> NoImage]
    /\ UNCHANGED <<engineEnded, polled, videoCallbacks, life, videoFrameBuffer,
                   videoFrameBufferSize, currentVideoFrame, ext, player, ring,
                   out, th, nextFrame, hist>>

\* The pixels of the image the caller holds.
UiPixels ==
    IF uiFrame.shared THEN currentVideoFrame.pixels ELSE uiFrame.image.pixels

VideoCallbackReturn ==
    /\ th.vid.pc = "v_ret"
    /\ th' = [th EXCEPT !.vid = IdleVid]
    /\ UNCHANGED <<vlc, ext, player, ring, out, nextFrame, hist>>

\* ---------------------------------- callbacks invoked with a null context
\* The audio entry points run on the decoder's thread, the video ones on the
\* video output thread.
CallbackEntries == {"audioLock", "audioUnlock", "audioFlush",
                    "videoLock", "videoUnlock", "videoDisplay", "videoFormat"}
ThreadOf(entry) ==
    IF entry \in {"audioLock", "audioUnlock", "audioFlush"} THEN "dec" ELSE "vid"

\* Every entry point but audioFlushCallback tests data (videoFormatCallback:
\* data and *data) and returns, nullptr or 0 where it returns a value.
\* audioFlushCallback reads player->audioRingBuffer through the null
\* pointer: the process is killed, or the read yields something and the
\* callback goes on; of the latter only the return without a store is kept.
ChecksContext(entry) == entry # "audioFlush"

CallbackWithNullContext(entry) ==
    /\ th[ThreadOf(entry)].pc = "idle"
    /\ mediaPlayer
    /\ fault' = (fault \/ ~ChecksContext(entry))
    /\ \E next \in IF ChecksContext(entry) THEN {"null_ret"}
                                            ELSE {"null_ret", "crashed"} :
          th' = [th EXCEPT ![ThreadOf(entry)] =
                    [pc |-> next, ret |-> <<>>, c |-> 0, entry |-> entry,
                     result |-> 0]]
    /\ UNCHANGED <<engineEnded, polled, videoCallbacks, teardown, postSeek, host, frames, ext,
                   player, ring, out, nextFrame, hist>>

NullContextReturn(t) ==
    /\ th[t].pc = "null_ret"
    /\ th' = [th EXCEPT ![t] = IF t = "dec" THEN IdleDec ELSE IdleVid]
    /\ UNCHANGED <<vlc, ext, player, ring, out, nextFrame, hist>>

\* ------------------------------------------------- ~VLCMediaPlayer
\* close(), then shutdownVLC. The object is gone afterwards: the thread does
\* not come back to "idle".
Destroy ==
    /\ th.ctl.pc = "idle"
    /\ CtlCall("destroy", "stop_flag", <<"close_media", "shutdown_stop">>,
               availableSamples)
    /\ UNCHANGED <<vlc, ext, player, ring, out, nextFrame, hist>>

\* libvlc_media_player_stop (mediaPlayer), with a player.
ShutdownStop ==
    /\ th.ctl.pc = "shutdown_stop"
    /\ mediaPlayer => EngineQuiet
    /\ IF mediaPlayer
         THEN /\ engineTime' = 0 - 1
              /\ seekTarget' = 0 - 1
              /\ engineEnded' = FALSE
              /\ teardown' = Append(teardown, "stop")
              /\ voutOpen' = FALSE
              /\ Goto("ctl", "shutdown_unset")
         ELSE /\ UNCHANGED <<engineTime, seekTarget, engineEnded, teardown,
                             voutOpen>>
              /\ Goto("ctl", "shutdown_media")
    /\ UNCHANGED <<polled, videoCallbacks, fault, postSeek, audioDeviceManager,
                   videoComponent, pendingResize, frames, info, player, ring, out,
                   nextFrame, hist>>

\* libvlc_video_set_callbacks and libvlc_video_set_format_callbacks with
\* null pointers.
ShutdownUnsetCallbacksSkipped ==
    /\ th.ctl.pc = "shutdown_unset"
    /\ Goto("ctl", "shutdown_sleep")
    /\ UNCHANGED <<vlc, ext, player, ring, out, nextFrame, hist>>

ShutdownUnsetCallbacks ==
    /\ th.ctl.pc = "shutdown_unset"
    /\ videoCallbacks' = FALSE
    /\ teardown' = Append(teardown, "unset")
    /\ Goto("ctl", "shutdown_sleep")
    /\ UNCHANGED <<engineEnded, polled, fault, postSeek, host, frames, ext, player, ring, out,
                   nextFrame, hist>>

\* juce::Thread::sleep (50)
ShutdownSleep ==
    /\ th.ctl.pc = "shutdown_sleep"
    /\ teardown' = Append(teardown, "sleep")
    /\ Goto("ctl", "shutdown_release")
    /\ UNCHANGED <<engineEnded, polled, videoCallbacks, fault, postSeek, host, frames, ext, player,
                   ring, out, nextFrame, hist>>

\* libvlc_media_player_release (mediaPlayer); mediaPlayer = nullptr
ShutdownReleasePlayer ==
    /\ th.ctl.pc = "shutdown_release"
    /\ mediaPlayer' = FALSE
    /\ teardown' = Append(teardown, "release")
    /\ Goto("ctl", "shutdown_media")
    /\ UNCHANGED <<engineEnded, polled, videoCallbacks, fault, postSeek, host, frames, ext,
                   vlcInstance, currentMedia, isCurrentlyPlaying, hasAudioStream,
                   hasVideoStream, currentAudioSample, seekGeneration, ring, out,
                   nextFrame, hist>>

\* The media, if any is left, and the instance are released.
ShutdownReleaseInstance ==
    /\ th.ctl.pc = "shutdown_media"
    /\ currentMedia' = FALSE
    /\ vlcInstance' = FALSE
    /\ Goto("ctl", "destroyed")
    /\ UNCHANGED <<vlc, ext, mediaPlayer, isCurrentlyPlaying, hasAudioStream,
                   hasVideoStream, currentAudioSample, seekGeneration, ring, out,
                   nextFrame, hist>>

\* ------------------------------------------- the engine ends the playback
\* The engine reaches the end of the media, or fails, while it plays. It has
\* no position from then on. setupEventHandling attaches no handler to the
\* engine's events, so nothing of the player runs.
EngineReachesEnd ==
    /\ mediaPlayer
    /\ currentMedia
    /\ isCurrentlyPlaying
    /\ engineTime >= 0
    /\ ~engineEnded
    /\ engineEnded' = TRUE
    /\ engineTime' = 0 - 1
    /\ seekTarget' = 0 - 1
    /\ voutOpen' = FALSE
    /\ UNCHANGED <<polled, videoCallbacks, fault, teardown, postSeek,
                   audioDeviceManager, videoComponent, pendingResize, frames, info, player, ring, out,
                   th, nextFrame, hist>>

\* The engine plays: its position advances, a millisecond at a time, and is
\* no longer the one a seek asked for.
EnginePlays ==
    /\ mediaPlayer
    /\ currentMedia
    /\ isCurrentlyPlaying
    /\ ~engineEnded
    /\ engineTime >= 0
    /\ engineTime < MaxEngineMs
    /\ engineTime' = engineTime + 1
    /\ seekTarget' = 0 - 1
    /\ UNCHANGED <<vlc, info, player, ring, out, th, nextFrame, hist>>

\* Arguments of the seeks: a time in milliseconds, a sample index.
SeekTimes == 0 .. MaxSeekMs
SeekSamples == 0 .. MaxSeekSample
PollSamples == 0 .. MaxPollSample

\* ------------------------------------------------------- specifications
CtlIdle == th.ctl.pc = "idle"
DecIdle == th.dec.pc = "idle"
AudIdle == th.aud.pc = "idle"

\* The steps that continue a call already begun.
CtlStep ==
    \/ ClearWritePosition("ctl") \/ ClearReadPosition("ctl")
    \/ ClearAvailable("ctl") \/ ClearData("ctl")
    \/ PlayPauseReturn
    \/ StopClearPlaying \/ StopResetPosition \/ StopReturn
    \/ CloseReleaseMedia \/ CloseResetHasVideo \/ CloseResetHasAudio
    \/ CloseResetDuration \/ CloseResetTotalSamples
    \/ CloseResetPosition \/ CloseResetVideoSize \/ CloseReturn
    \/ \E exists \in BOOLEAN, created \in BOOLEAN, errorGiven \in BOOLEAN :
          OpenCreateMedia(exists, created, errorGiven)
    \/ \E durationMs \in Durations : OpenPublishDuration(durationMs)
    \/ OpenPublishTotalSamples
    \/ \E audio \in BOOLEAN, video \in VideoTracks : OpenReadTracks(audio, video)
    \/ OpenPublishHasAudio \/ OpenPublishHasVideo \/ OpenNotifyMediaReady
    \/ OpenReturn
    \/ SeekToSampleCallsSeekToTime \/ SeekIncrementGeneration \/ SeekSetTime
    \/ SeekReturn
    \/ TimerStep

WriteStep ==
    \/ ProcessLoadAvailable \/ ProcessCopyFrame \/ ProcessStoreWritePos
    \/ ProcessAddAvailable \/ ProcessReturn

FlushStep ==
    \/ ClearWritePosition("dec") \/ ClearReadPosition("dec")
    \/ ClearAvailable("dec") \/ ClearData("dec") \/ AudioFlushReturn

AudStep ==
    \/ CallbackLoadIsPlaying \/ CallbackLoadAvailable \/ CallbackLoadReadPos
    \/ CallbackCopySample \/ CallbackStoreReadPos \/ CallbackStoreAvailable
    \/ CallbackAdvancePosition \/ CallbackReturn

\* The calls that begin on an idle thread.
CtlBegin ==
    \/ Play \/ Pause \/ Stop \/ Close \/ Open
    \/ \E ms \in SeekTimes : SeekToTime(ms)
    \/ \E s \in SeekSamples : SeekToSample(s)
    \/ TimerBegin

WriteBegin == \E n \in WriteSizes : ProcessLoadWritePos(n)

AudBegin ==
    \E numSamples \in BlockSizes, numOut \in OutChannelCounts :
        CallbackClearAndLoadHasAudio(numSamples, numOut)

\* Spec: the player used from one thread at a time. Every call, on whichever
\* thread, runs to its end before the next begins.
AllIdle == CtlIdle /\ DecIdle /\ AudIdle

Next ==
    \/ AllIdle /\ CtlBegin
    \/ AllIdle /\ WriteBegin
    \/ AllIdle /\ AudioFlushCallback
    \/ AllIdle /\ AudBegin
    \/ CtlStep
    \/ WriteStep
    \/ FlushStep
    \/ AudStep

Spec == Init /\ [][Next]_vars

\* SpecSPSC: one decoder thread writing and one audio thread pulling, their
\* steps interleaved freely; no clear() runs.
NextSPSC ==
    \/ WriteBegin
    \/ WriteStep
    \/ AudBegin
    \/ AudStep

SpecSPSC == InitPlaying /\ [][NextSPSC]_vars

\* The steps of seekToTime after its entry.
SeekStep ==
    \/ SeekIncrementGeneration \/ SeekSetTime
    \/ ClearWritePosition("ctl") \/ ClearReadPosition("ctl")
    \/ ClearAvailable("ctl") \/ ClearData("ctl")
    \/ SeekReturn

\* SpecSeekRace: seekToTime on the controller thread, interleaved freely with
\* the decoder's writes; the audio thread pulls between them.
NextSeekRace ==
    \/ AudIdle /\ \E ms \in SeekTimes : SeekToTime(ms)
    \/ SeekStep
    \/ AudIdle /\ WriteBegin
    \/ WriteStep
    \/ (CtlIdle /\ DecIdle) /\ AudBegin
    \/ AudStep

SpecSeekRace == InitPlaying /\ [][NextSeekRace]_vars

\* SpecClearRace: the clear() of a seek overlaps at most one pull, the one in
\* progress when the seek began; writes overlap nothing.
NextClearRace ==
    \/ AllIdle /\ WriteBegin
    \/ WriteStep
    \/ (CtlIdle /\ DecIdle) /\ AudBegin
    \/ AudStep
    \/ DecIdle /\ \E ms \in SeekTimes : SeekToTime(ms)
    \/ SeekStep

SpecClearRace == InitPlaying /\ [][NextClearRace]_vars

\* The steps of stop() after its entry.
StopStep ==
    \/ StopClearPlaying \/ StopResetPosition
    \/ ClearWritePosition("ctl") \/ ClearReadPosition("ctl")
    \/ ClearAvailable("ctl") \/ ClearData("ctl")
    \/ StopReturn

\* SpecStopRace: stop() and the position timer on the controller's thread,
\* overlapping a pull on the audio thread; writes overlap nothing.
NextStopRace ==
    \/ AllIdle /\ WriteBegin
    \/ WriteStep
    \/ (CtlIdle /\ DecIdle) /\ AudBegin
    \/ AudStep
    \/ DecIdle /\ Stop
    \/ StopStep
    \/ DecIdle /\ TimerBegin
    \/ TimerStep

SpecStopRace == InitPlaying /\ [][NextStopRace]_vars

\* SpecSeekPoll: one seekToSample while playing, and the position timer.
NextSeekPoll ==
    \/ \E s \in PollSamples : SeekToSample(s)
    \/ SeekToSampleCallsSeekToTime
    \/ SeekStep
    \/ TimerBegin
    \/ TimerStep

SpecSeekPoll == InitPlaying /\ [][NextSeekPoll]_vars

\* SpecRingRace: the decoder thread writes, the audio thread pulls and the
\* controller seeks. A pull begins while the other threads are between two
\* calls, a seek while a pull is in progress and the decoder is not writing,
\* and a write while no seek runs: between two pulls or, once a seek was
\* made, during a pull.
NextRingRace ==
    \/ (CtlIdle /\ (AudIdle \/ seekGeneration > 0)) /\ WriteBegin
    \/ WriteStep
    \/ (CtlIdle /\ DecIdle) /\ AudBegin
    \/ AudStep
    \/ (~AudIdle /\ DecIdle) /\ \E ms \in SeekTimes : SeekToTime(ms)
    \/ SeekStep

SpecRingRace == InitPlaying /\ [][NextRingRace]_vars

\* The steps of the destructor after its entry.
DestroyStep ==
    \/ StopStep
    \/ CloseReleaseMedia \/ CloseResetHasVideo \/ CloseResetHasAudio
    \/ CloseResetDuration \/ CloseResetTotalSamples
    \/ CloseResetPosition \/ CloseResetVideoSize
    \/ ShutdownStop \/ ShutdownUnsetCallbacks \/ ShutdownSleep
    \/ ShutdownReleasePlayer \/ ShutdownReleaseInstance

\* SpecVideo: the engine's video output thread calls the video callbacks, and
\* the engine's threads call entry points with a null context, while the
\* controller plays, pauses, stops, fetches the current video frame and at
\* last destroys the player.
NextVideo ==
    \/ \E width \in 1 .. MaxVideoWidth, height \in 1 .. MaxVideoHeight :
          VideoFormatCallback(width, height)
    \/ \E p \in 1 .. MaxPictures : VideoLockCallback(p)
    \/ VideoDisplayCallback
    \/ VideoConvertPixel
    \/ VideoCallbackReturn
    \/ GetCurrentVideoFrame
    \/ \E entry \in CallbackEntries : CallbackWithNullContext(entry)
    \/ \E t \in {"dec", "vid"} : NullContextReturn(t)
    \/ Play \/ Pause \/ PlayPauseReturn
    \/ Stop
    \/ Destroy
    \/ DestroyStep

InitVideo == VideoFilePlaying /\ Constructed

SpecVideo == InitVideo /\ [][NextVideo]_vars

\* SpecEndOfMedia: the caller seeks and the timer polls while the engine
\* plays to the end of the media; nobody calls pause(), stop() or close().
\* The timer fires every 16 ms, and a call that has begun runs to its end.
NextEndOfMedia ==
    \/ EngineReachesEnd
    \/ \E s \in SeekSamples : SeekToSample(s)
    \/ SeekToSampleCallsSeekToTime
    \/ SeekStep
    \/ TimerBegin
    \/ TimerStep

SpecEndOfMedia ==
    /\ InitPlaying
    /\ [][NextEndOfMedia]_vars
    /\ WF_vars(TimerBegin)
    /\ WF_vars(TimerStep)
    /\ WF_vars(SeekToSampleCallsSeekToTime \/ SeekStep)

\* SpecPoll: the engine plays on while the caller pauses and resumes and the
\* position timer polls. A call is over within the millisecond.
NextPoll ==
    \/ CtlIdle /\ EnginePlays
    \/ Play \/ Pause \/ PlayPauseReturn
    \/ TimerBegin
    \/ TimerStep

SpecPoll == InitPlaying /\ [][NextPoll]_vars

\* SpecOpen: open(), close(), play(), pause() and stop(), one call at a time,
\* of media of every duration up to MaxOpenDurationMs.
OpenStep ==
    \/ StopStep
    \/ CloseReleaseMedia \/ CloseResetHasVideo \/ CloseResetHasAudio
    \/ CloseResetDuration \/ CloseResetTotalSamples
    \/ CloseResetPosition \/ CloseResetVideoSize \/ CloseReturn
    \/ \E exists \in BOOLEAN, created \in BOOLEAN :
          OpenCreateMedia(exists, created, TRUE)
    \/ \E durationMs \in (0 - 1) .. MaxOpenDurationMs :
          OpenPublishDuration(durationMs)
    \/ OpenPublishTotalSamples
    \/ \E audio \in BOOLEAN, video \in VideoTracks : OpenReadTracks(audio, video)
    \/ OpenPublishHasAudio \/ OpenPublishHasVideo \/ OpenNotifyMediaReady
    \/ OpenReturn

NextOpen ==
    \/ Open \/ Close \/ Stop
    \/ OpenStep
    \/ Play \/ Pause \/ PlayPauseReturn

SpecOpen == Init /\ [][NextOpen]_vars

\* SpecRegistered: a media with an audio and a video track was opened and
\* played, and the engine calls the callbacks registered on the player and no
\* others. setupVideoCallbacks registers the video and the format callbacks;
\* setupAudioCallbacks registers nothing, and the instance was created with
\* --no-audio: audioLockCallback, audioUnlockCallback and audioFlushCallback
\* are never called, and no step of processAudioData or of a flush is taken.
\* The audio device pulls block after block. Of the steps of a pull, those
\* up to the load of availableSamples and the return are listed; the copy
\* that follows the load of a count above 0 is not.
PullStepUpToAvailable ==
    \/ CallbackLoadIsPlaying \/ CallbackLoadAvailable \/ CallbackReturn

NextRegistered ==
    \/ \E width \in 1 .. MaxVideoWidth, height \in 1 .. MaxVideoHeight :
          VideoFormatCallback(width, height)
    \/ \E p \in 1 .. MaxPictures : VideoLockCallback(p)
    \/ VideoDisplayCallback
    \/ VideoConvertPixel
    \/ VideoCallbackReturn
    \/ AudBegin
    \/ PullStepUpToAvailable

SpecRegistered ==
    /\ InitVideo
    /\ [][NextRegistered]_vars
    /\ WF_vars(AudBegin)
    /\ WF_vars(PullStepUpToAvailable)

\* SpecNullChannel: the device hands over output-channel arrays of which some
\* entries are null, in every playback state and at every fill level of the
\* ring. One call runs at a time.
NextNullChannel ==
    \/ AllIdle /\ WriteBegin
    \/ WriteStep
    \/ AllIdle /\ \E numSamples \in BlockSizes, numOut \in OutChannelCounts :
                     \E nulls \in (SUBSET (1 .. numOut)) \ {{}} :
                         CallbackWithNullChannels(numSamples, numOut, nulls)
    \/ AudStep
    \/ AllIdle /\ (Play \/ Pause)
    \/ PlayPauseReturn

SpecNullChannel == InitPlaying /\ [][NextNullChannel]_vars

\* SpecSeekFlush: the decoder thread writes, the controller seeks, and the
\* engine answers the seek with one flush on the decoder's thread and goes on
\* to write the audio of the new position. The steps of the two threads
\* interleave freely; no pull runs.
NextSeekFlush ==
    \/ WriteBegin
    \/ WriteStep
    \/ \E ms \in SeekTimes : SeekToTime(ms)
    \/ SeekStep
    \/ SeekFlushCallback
    \/ FlushStep

SpecSeekFlush == InitPlaying /\ [][NextSeekFlush]_vars

\* ------------------------------------------------------------ properties
\* C1 (SpecSPSC): with one thread writing and one thread pulling, no write
\* stores a frame into the cell of a frame that was stored and not yet read,
\* and every pull copies out the oldest unread frames, in the order they were
\* stored.
SpscNoLossNoReorder == ~overwrote /\ ~misdelivered

\* C2 (SpecSPSC): whenever neither the producer nor the consumer is inside a
\* call, availableSamples is congruent to writePosition - readPosition modulo
\* the capacity (the two differ by the capacity exactly when the ring is
\* full). The states inside a call are left out: between the store of a
\* cursor and the update of the count the relation is broken by construction.
CursorsAgreeWithCount ==
    (DecIdle /\ AudIdle) =>
        availableSamples % BufNumSamples
            = (writePosition - readPosition) % BufNumSamples

\* The frame that the i-th sample (from 0) of two writes w1, w2 carries.
FrameOfWrites(w1, w2, i) ==
    IF i < w1.n THEN w1.first + i ELSE w2.first + (i - w1.n)

\* C3 (Spec): a pull of n1+n2 frames while playing, after a write of n1 frames
\* into the empty ring and a write of n2 frames with n1+n2 within the
\* capacity, delivers on every channel copied the n1 samples of the first
\* write followed by the n2 samples of the second, wherever the cursors stood.
FifoAcrossTwoWrites ==
    (/\ th.aud.pc = "a_ret"
     /\ th.aud.active
     /\ Len(log) = 2
     /\ log[1].op = "write"
     /\ log[2].op = "write"
     /\ log[1].av0 = 0
     /\ log[1].n + log[2].n <= BufNumSamples
     /\ th.aud.numSamples = log[1].n + log[2].n)
    => /\ th.aud.samplesToRead = log[1].n + log[2].n
       /\ \A ch \in 0 .. (jmin(th.aud.numOut, BufNumChannels) - 1) :
            \A i \in 0 .. (th.aud.numSamples - 1) :
                out[ch + 1][i + 1] = SampleOf(ch, FrameOfWrites(log[1], log[2], i))

\* C3 witness: such a pull has returned both writes and the write or the read
\* wrapped around the end of the storage.
FifoAcrossTwoWritesWrapped ==
    /\ th.aud.pc = "a_ret"
    /\ th.aud.active
    /\ Len(log) = 2
    /\ log[1].op = "write"
    /\ log[2].op = "write"
    /\ log[1].av0 = 0
    /\ log[1].n + log[2].n <= BufNumSamples
    /\ th.aud.numSamples = log[1].n + log[2].n
    /\ th.aud.pre.rp + th.aud.numSamples > BufNumSamples
    /\ th.aud.pre.rp + log[1].n < BufNumSamples

\* C4 (Spec): a write of n frames stores min(n, capacity - available) of them
\* and drops the rest; on a full ring it stores nothing and leaves the ring as
\* it was; the frames already buffered, the read cursor and the bound
\* available <= capacity are untouched.
WriteDropsExcess ==
    th.dec.pc = "w_ret" =>
        LET pre == th.dec.pre
            stored == th.dec.samplesToWrite
        IN /\ stored = jmin(th.dec.n, BufNumSamples - pre.av)
           /\ availableSamples = pre.av + stored
           /\ availableSamples <= BufNumSamples
           /\ readPosition = pre.rp
           /\ writePosition = (pre.wp + stored) % BufNumSamples
           /\ \A ch \in Channels : \A k \in 0 .. (pre.av - 1) :
                data[ch][(pre.rp + k) % BufNumSamples]
                    = pre.data[ch][(pre.rp + k) % BufNumSamples]
           /\ pre.av = BufNumSamples =>
                /\ stored = 0
                /\ data = pre.data
                /\ writePosition = pre.wp

\* C4 witness: a write that found frames buffered has returned after
\* dropping a part of its block.
WriteDroppedPartOfBlock ==
    /\ th.dec.pc = "w_ret"
    /\ th.dec.pre.av > 0
    /\ th.dec.samplesToWrite > 0
    /\ th.dec.samplesToWrite < th.dec.n

\* C5 (Spec): a pull of B samples while playing with audio reads
\* min(B, available) samples; every output sample after them, and every
\* sample of the output channels beyond the ring's two, is silence.
PullPadsWithSilence ==
    (th.aud.pc = "a_ret" /\ th.aud.active) =>
        LET r == jmin(th.aud.numSamples, th.aud.pre.av) IN
            /\ th.aud.samplesToRead = r
            /\ DOMAIN out = 1 .. th.aud.numOut
            /\ \A c \in 1 .. th.aud.numOut :
                 /\ DOMAIN out[c] = 1 .. th.aud.numSamples
                 /\ \A i \in 1 .. th.aud.numSamples :
                      (i > r \/ c > BufNumChannels) => out[c][i] = Silence
            /\ availableSamples = th.aud.pre.av - r

\* C5 witness: a pull for three output channels has returned fewer samples
\* than the block holds.
PullShortOnThreeChannels ==
    /\ th.aud.pc = "a_ret"
    /\ th.aud.active
    /\ th.aud.numOut > BufNumChannels
    /\ th.aud.samplesToRead > 0
    /\ th.aud.samplesToRead < th.aud.numSamples

\* C6 (Spec): when a successful seek, a stop() with a player, a close(), an
\* open() or the engine's flush returns, both cursors and the count are 0,
\* and a pull that follows at once reads nothing.
ClearedOnReturn ==
    /\ (\/ th.ctl.pc = "seek_ret" /\ th.ctl.ok
        \/ th.ctl.pc = "stop_ret" /\ mediaPlayer
        \/ th.ctl.pc \in {"close_ret", "open_ret"}
        \/ th.dec.pc = "flush_ret")
       => /\ writePosition = 0
          /\ readPosition = 0
          /\ availableSamples = 0
    /\ (th.aud.pc = "a_ret" /\ Len(log) = 1 /\ log[1].op = "clear")
       => /\ th.aud.samplesToRead = 0
          /\ \A c \in DOMAIN out : \A i \in DOMAIN out[c] : out[c][i] = Silence

\* C6 witness: a successful seek returns, and the ring held frames when it
\* began.
SeekClearedBufferedFrames ==
    /\ th.ctl.pc = "seek_ret"
    /\ th.ctl.ok
    /\ th.ctl.arg > 0

\* C7 (SpecSeekRace): once seekToTime has returned true, no pull copies out a
\* frame that was decoded before the seek, however the seek interleaved with
\* a write the decoder thread had already begun.
NoPreSeekAudioAfterSeek == ~staleOut

\* C8 (SpecClearRace): once a seek whose clear() overlapped a pull has
\* returned and the pull has returned too, the count agrees with the cursors
\* again: availableSamples is congruent to writePosition - readPosition modulo
\* the capacity.
ConsistentAfterClearRace ==
    (AllIdle /\ seekGeneration > 0) =>
        availableSamples % BufNumSamples
            = (writePosition - readPosition) % BufNumSamples

\* C9 (Spec): after a clearing operation, a write of n frames (n within the
\* capacity) followed by a pull of B samples while playing delivers
\* min(n, B) samples, and they are the first samples of that write, in order.
FreshStartAfterClear ==
    (/\ th.aud.pc = "a_ret"
     /\ th.aud.active
     /\ Len(log) = 2
     /\ log[1].op = "clear"
     /\ log[2].op = "write")
    => /\ th.aud.samplesToRead = jmin(log[2].n, th.aud.numSamples)
       /\ th.aud.pre.rp = 0
       /\ \A ch \in 0 .. (jmin(th.aud.numOut, BufNumChannels) - 1) :
            \A i \in 0 .. (jmin(log[2].n, th.aud.numSamples) - 1) :
                out[ch + 1][i + 1] = SampleOf(ch, log[2].first + i)

\* C9 witness: a pull has returned two or more samples of a write that
\* followed a seek.
PullAfterSeekAndWrite ==
    /\ th.aud.pc = "a_ret"
    /\ th.aud.active
    /\ Len(log) = 2
    /\ log[1].op = "clear"
    /\ log[1].by = "seek"
    /\ log[2].op = "write"
    /\ th.aud.samplesToRead >= 2

\* C10 (Spec, with a player handle): isCurrentlyPlaying is false when a
\* successful open() returns; when play() returns it is true if media is
\* loaded and, with no media, what it was before; it is false when pause()
\* returns.
PlayingFlagFollowsCalls ==
    mediaPlayer =>
        /\ (th.ctl.pc = "open_ret" /\ th.ctl.ok) => ~isCurrentlyPlaying
        /\ (th.ctl.pc = "play_ret" /\ currentMedia) => isCurrentlyPlaying
        /\ (th.ctl.pc = "play_ret" /\ ~currentMedia)
               => (isCurrentlyPlaying = th.ctl.arg /\ ~isCurrentlyPlaying)
        /\ th.ctl.pc = "pause_ret" => ~isCurrentlyPlaying

\* C10 witness: play() returns with the flag true, called while the flag was
\* false and the position was past 0, that is, from Paused.
PlayResumedFromPaused ==
    /\ mediaPlayer
    /\ th.ctl.pc = "play_ret"
    /\ currentMedia
    /\ isCurrentlyPlaying
    /\ th.ctl.arg = FALSE
    /\ currentAudioSample > 0

\* C11 (SpecStopRace): once stop() has returned, with a player, the playing
\* flag is false and currentAudioSample is 0 and stays 0 (no play and no seek
\* follows in SpecStopRace), whatever pull was in progress on the audio
\* thread and whenever the position timer fires. In SpecStopRace the flag is
\* true until the first stop() clears it, so a false flag outside the steps
\* of stop() means that a stop() has returned.
StoppedPositionStaysZero ==
    (/\ ~isCurrentlyPlaying
     /\ th.ctl.pc \notin {"stop_pos", "clr_wp", "clr_rp", "clr_av", "clr_data"})
    => currentAudioSample = 0

\* C12 (Spec): when close() returns no media is loaded, the playing flag and
\* both track flags are false, the duration and the total are -1, the current
\* sample and the video size are 0 and the ring is empty; a close() of a
\* closed player leaves it closed, with the same seek generation.
CloseLeavesClosed ==
    th.ctl.pc = "close_ret" =>
        /\ ~currentMedia
        /\ ~isCurrentlyPlaying
        /\ ~hasAudioStream
        /\ ~hasVideoStream
        /\ mediaDuration = 0 - 1
        /\ totalAudioSamples = 0 - 1
        /\ currentAudioSample = 0
        /\ videoWidth = 0
        /\ videoHeight = 0
        /\ availableSamples = 0
        /\ writePosition = 0
        /\ readPosition = 0
        /\ th.ctl.pre.closed => (data = ZeroData /\ engineTime = 0 - 1
                                    /\ seekGeneration = th.ctl.pre.gen)

\* C12 witness: close() returns, called on a player that was not closed and
\* had frames buffered.
ClosedWithFramesBuffered ==
    /\ th.ctl.pc = "close_ret"
    /\ ~th.ctl.pre.closed
    /\ th.ctl.arg > 0

\* C13 (Spec): an open() that fails returns false, has written a non-empty
\* text if it was given an error string, has delivered no mediaReady and
\* leaves the player closed, whatever it was before.
FailedOpenLeavesClosed ==
    (th.ctl.pc = "open_ret" /\ ~th.ctl.ok) =>
        /\ th.ctl.arg => th.ctl.err # ""
        /\ th.ctl.events = <<>>
        /\ ~currentMedia
        /\ ~isCurrentlyPlaying
        /\ ~hasAudioStream
        /\ ~hasVideoStream
        /\ mediaDuration = 0 - 1
        /\ totalAudioSamples = 0 - 1
        /\ currentAudioSample = 0
        /\ videoWidth = 0
        /\ videoHeight = 0
        /\ availableSamples = 0

\* C13 witness: an open() given an error string fails at the creation of the
\* media, on a player that had media loaded.
OpenFailedOverLoadedMedia ==
    /\ th.ctl.pc = "open_ret"
    /\ ~th.ctl.ok
    /\ th.ctl.arg
    /\ th.ctl.err = "Failed to create libVLC media from file"
    /\ ~th.ctl.pre.closed

\* C14 (Spec): without an engine instance or without a player handle, every
\* open() fails and the text it writes is the engine-not-initialised one,
\* whether the file exists or not.
OpenWithoutEngineSaysSo ==
    (th.ctl.pc = "open_ret" /\ ~(vlcInstance /\ mediaPlayer)) =>
        /\ ~th.ctl.ok
        /\ th.ctl.arg => th.ctl.err = "libVLC not initialized"

\* C15 (Spec): without a player handle, whatever was called: the playing flag
\* and the track flags are false, the duration and the total are -1, the
\* current sample is 0, and every open and every seek returns false.
NoEngineNoEffect ==
    ~mediaPlayer =>
        /\ ~isCurrentlyPlaying
        /\ ~hasAudioStream
        /\ ~hasVideoStream
        /\ mediaDuration = 0 - 1
        /\ totalAudioSamples = 0 - 1
        /\ currentAudioSample = 0
        /\ th.ctl.pc \in {"open_ret", "seek_ret"} => ~th.ctl.ok

\* C15 witness: without a player handle, an open() of a file that exists
\* returns.
OpenReturnedWithoutEngine ==
    /\ ~mediaPlayer
    /\ th.ctl.pc = "open_ret"
    /\ th.ctl.err = "libVLC not initialized"

\* C16 (Spec): when a successful open() returns, exactly one mediaReady has
\* been delivered, and the listeners saw the duration and the track flags the
\* player has on return, which are those of the track list; a failed open()
\* and every other call deliver none.
MediaReadyOncePerOpen ==
    /\ (th.ctl.pc = "open_ret" /\ th.ctl.ok) =>
          /\ Len(th.ctl.events) = 1
          /\ th.ctl.events[1].name = "mediaReady"
          /\ th.ctl.events[1].seen = Observed
          /\ hasAudioStream = th.ctl.tracks.audio
          /\ hasVideoStream = (th.ctl.tracks.video # <<>>)
    /\ (th.ctl.pc # "idle" /\ ~(th.ctl.pc = "open_ret" /\ th.ctl.ok)) =>
          th.ctl.events = <<>>

\* C16 witness: a successful open() of a media with an audio track and a
\* known duration returns.
OpenedAudioWithDuration ==
    /\ th.ctl.pc = "open_ret"
    /\ th.ctl.ok
    /\ hasAudioStream
    /\ mediaDuration > 0

\* C17 (Spec): seekToTime returns false exactly when there is no player or no
\* media; seekToSample returns false exactly when there is no player, no
\* audio stream, no positive sample rate, or seekToTime fails. A seek that
\* returns false has changed nothing the getters and the ring show and has
\* issued no time-set to the engine.
SeekFailsExactlyWhenAndCleanly ==
    th.ctl.pc = "seek_ret" =>
        /\ th.ctl.op = "seekToTime" =>
              (th.ctl.ok <=> (mediaPlayer /\ currentMedia))
        /\ th.ctl.op = "seekToSample" =>
              (th.ctl.ok <=> (/\ mediaPlayer
                              /\ hasAudioStream
                              /\ SampleRate > 0
                              /\ currentMedia))
        /\ ~th.ctl.ok => (Observed = th.ctl.pre /\ th.ctl.sets = 0)

\* C17 witness: seekToSample returns false on a loaded media that has a video
\* track and no audio track.
SeekToSampleFailedOnVideoOnly ==
    /\ th.ctl.pc = "seek_ret"
    /\ th.ctl.op = "seekToSample"
    /\ ~th.ctl.ok
    /\ mediaPlayer
    /\ currentMedia
    /\ hasVideoStream
    /\ ~hasAudioStream

\* C18 (Spec): a seek that returns true has raised seekGeneration by exactly
\* 1 and issued exactly one time-set; no step of any operation lowers or
\* resets seekGeneration, and only the increment of a seek raises it.
SeekGenerationCounts ==
    /\ []((th.ctl.pc = "seek_ret" /\ th.ctl.ok) =>
             (seekGeneration = th.ctl.pre.gen + 1 /\ th.ctl.sets = 1))
    /\ [][\/ seekGeneration' = seekGeneration
          \/ /\ seekGeneration' = seekGeneration + 1
             /\ th.ctl.pc = "seek_gen"]_vars

\* C18 witness: a seekToSample returns true.
SeekToSampleAccepted ==
    /\ th.ctl.pc = "seek_ret"
    /\ th.ctl.op = "seekToSample"
    /\ th.ctl.ok
    /\ seekGeneration > 0

\* C19 (SpecSeekPoll): when the position poll has stored the position the
\* engine reports, and that is the position a seekToSample (s) asked for,
\* currentAudioSample is s.
SeekIsSampleAccurate ==
    (/\ th.ctl.pc = "timer_ret"
     /\ th.ctl.ok
     /\ seekTarget >= 0
     /\ th.ctl.arg = engineTime)
    => currentAudioSample = seekTarget

\* C20 (SpecSeekPoll): in the same case currentAudioSample / sampleRate
\* differs from s / sampleRate by less than 16 ms.
SeekRoundTripWithinPollInterval ==
    (/\ th.ctl.pc = "timer_ret"
     /\ th.ctl.ok
     /\ isCurrentlyPlaying
     /\ seekTarget >= 0
     /\ th.ctl.arg = engineTime)
    => /\ (currentAudioSample - seekTarget) * 1000 < 16 * SampleRate
       /\ (seekTarget - currentAudioSample) * 1000 < 16 * SampleRate

\* C20 witness: such a poll after a seek to a sample past the first
\* millisecond, read back as another sample.
PolledAfterSeekOffTheSample ==
    /\ th.ctl.pc = "timer_ret"
    /\ th.ctl.ok
    /\ isCurrentlyPlaying
    /\ seekTarget >= 45
    /\ th.ctl.arg = engineTime
    /\ currentAudioSample # seekTarget

\* getSampleRate(): static_cast<int> (currentSampleRate.load())
getSampleRate == SampleRate

\* C21 (Spec): getSampleRate() returns 0 whenever no media is loaded or the
\* loaded media has no audio stream.
SampleRateZeroWithoutAudio ==
    (~currentMedia \/ ~hasAudioStream) => getSampleRate = 0

\* C22 (SpecEndOfMedia): whenever the engine has stopped playing on its own,
\* isPlaying() eventually returns false, without a call of pause(), stop() or
\* close().
EndOfMediaClearsPlaying == engineEnded ~> ~isCurrentlyPlaying

\* A seekCompleted notification is among those the running call delivered.
SeekCompletedDelivered ==
    /\ th.ctl.pc # "idle"
    /\ \E i \in DOMAIN th.ctl.events : th.ctl.events[i].name = "seekCompleted"

\* C23 (SpecEndOfMedia): every seek that returns true is eventually followed
\* by a seekCompleted notification to the listeners.
SeekCompletedFollowsSeek ==
    (th.ctl.pc = "seek_ret" /\ th.ctl.ok) ~> SeekCompletedDelivered

\* A step that invokes a callback entry point with a null context.
NullContextStep ==
    \E t \in {"dec", "vid"} :
        th[t].pc = "idle" /\ th'[t].pc \in {"null_ret", "crashed"}

\* C24 (SpecVideo): every engine-invoked callback entry point (audio lock,
\* unlock, flush; video lock, unlock, display, format), invoked with a null
\* context pointer, returns without dereferencing it and without changing any
\* adapter state.
NullContextIsNoOp ==
    [][NullContextStep => (Adapter' = Adapter /\ fault' = fault)]_vars

\* The steps of shutdownVLC on a player, in the order of the claim.
ShutdownOrder == <<"stop", "unset", "sleep", "release">>

DisplayedFrameIsSwapped ==
    (/\ th.vid.pc = "v_ret"
     /\ th.vid.entry = "videoDisplay"
     /\ ~videoFrameBuffer.null
     /\ videoWidth > 0
     /\ videoHeight > 0
     /\ Len(videoFrameBuffer.bytes) = videoWidth * videoHeight * 4)
    => /\ currentVideoFrame.valid
       /\ currentVideoFrame.width = videoWidth
       /\ currentVideoFrame.height = videoHeight
       /\ DOMAIN currentVideoFrame.pixels = 1 .. (videoWidth * videoHeight)
       /\ \A i \in 1 .. (videoWidth * videoHeight) :
            LET px == currentVideoFrame.pixels[i]
                src == videoFrameBuffer.bytes
                k == (i - 1) * 4
            IN /\ px[0] = src[k + 3]
               /\ px[1] = src[k + 2]
               /\ px[2] = src[k + 1]
               /\ px[3] = src[k + 4]
       /\ th.vid.created <=> (th.vid.was # <<videoWidth, videoHeight>>)

\* C28 witness: a display callback has returned after it stored a decoded
\* picture in the image it found.
DisplayReusedImage ==
    /\ th.vid.pc = "v_ret"
    /\ th.vid.entry = "videoDisplay"
    /\ ~th.vid.created
    /\ currentVideoFrame.valid
    /\ currentVideoFrame.pixels[1][0] # 0

\* C26 (Spec): while playing, getCurrentSample() is the sample index the
\* position poll derived from the engine clock it read last, however many
\* samples the audio pulls have drained from the ring since that poll.
PositionIsThePolledOne ==
    (isCurrentlyPlaying /\ polled >= 0) => currentAudioSample = polled

\* C29 (SpecRingRace): in every reachable state, whatever the interleaving
\* of writes, flushes, pulls and clears, 0 <= writePosition < N,
\* 0 <= readPosition < N and 0 <= availableSamples <= N.
RingWithinBounds ==
    /\ writePosition \in 0 .. (BufNumSamples - 1)
    /\ readPosition \in 0 .. (BufNumSamples - 1)
    /\ availableSamples \in 0 .. BufNumSamples

\* C30 (Spec): every audio-device callback leaves silence in all output
\* channels where it copies nothing. Not playing, or without an audio stream,
\* it changes nothing else: cursors, count, storage and current sample are as
\* before. Playing with audio it copies r = min(block size, available)
\* samples into the first min(device channels, ring channels) channels,
\* advances readPosition by r modulo the capacity, lowers available by r and
\* advances the current sample by r.
PullEffect ==
    th.aud.pc = "a_ret" =>
        LET pre == th.aud.pre
            r == IF isCurrentlyPlaying /\ hasAudioStream
                   THEN jmin(th.aud.numSamples, pre.av) ELSE 0
            copied == jmin(th.aud.numOut, BufNumChannels)
        IN /\ DOMAIN out = 1 .. th.aud.numOut
           /\ \A c \in 1 .. th.aud.numOut :
                /\ DOMAIN out[c] = 1 .. th.aud.numSamples
                /\ \A i \in 1 .. th.aud.numSamples :
                     out[c][i] = IF c <= copied /\ i <= r
                                   THEN pre.data[c - 1][(pre.rp + i - 1) % BufNumSamples]
                                   ELSE Silence
           /\ readPosition = (pre.rp + r) % BufNumSamples
           /\ availableSamples = pre.av - r
           /\ currentAudioSample = pre.cur + r
           /\ writePosition = pre.wp
           /\ data = pre.data

\* C30 witness: a callback has returned while the player was paused with
\* audio in the ring.
PullWhilePausedKeptAudio ==
    /\ th.aud.pc = "a_ret"
    /\ ~isCurrentlyPlaying
    /\ hasAudioStream
    /\ th.aud.pre.av > 0
    /\ availableSamples = th.aud.pre.av

\* The steps of a position poll: it begins, it stores, it returns.
PollBegins == th.ctl.pc = "idle" /\ th'.ctl.pc \in {"timer_store", "timer_ret"}
PollStores == th.ctl.pc = "timer_store" /\ th'.ctl.pc = "timer_ret"
PollReturns == th.ctl.pc = "timer_ret" /\ th'.ctl.pc = "idle"

\* What a poll does but for the value it stores: it goes on to the store
\* exactly when the player is playing and the engine reports a time of 0 or
\* more, the store changes the current-sample counter only, and nothing else
\* of the poll changes anything.
PollFrame ==
    /\ PollBegins =>
          /\ Adapter' = Adapter
          /\ (th'.ctl.pc = "timer_store")
                <=> (isCurrentlyPlaying /\ th'.ctl.arg >= 0 /\ SampleRate > 0)
    /\ PollStores =>
          Adapter' = <<[Observed EXCEPT !.cur = currentAudioSample'], frames>>
    /\ PollReturns => Adapter' = Adapter

\* C31 as stated (SpecPoll): each position poll, if and only if the player is
\* playing and the engine reports t >= 0 ms, sets the current-sample counter
\* to floor (t / 1000 * sampleRate), and otherwise leaves the counter and all
\* other state unchanged.
PollStoresFloor ==
    [][/\ PollFrame
       /\ PollStores =>
             currentAudioSample' = (th.ctl.arg * SampleRate) \div 1000]_vars

\* C31 (SpecPoll), amended: the same, with the counter set to the double
\* product t / 1000.0 * sampleRate cut to an integer: floor (t * sampleRate /
\* 1000), or one less where t * sampleRate / 1000 is a whole number above 0.
PollStoresTruncatedProduct ==
    [][/\ PollFrame
       /\ PollStores =>
             currentAudioSample' \in Truncations(th.ctl.arg * SampleRate, 1000)]_vars

\* C31 witness: a poll has stored a position one below the exact quotient.
PolledBelowTheFloor ==
    /\ th.ctl.pc = "timer_ret"
    /\ th.ctl.ok
    /\ isCurrentlyPlaying
    /\ currentAudioSample = (th.ctl.arg * SampleRate) \div 1000 - 1

\* What a successful open() publishes but for the total: the duration the
\* engine reported, or -1.0 with the total -1 where it reported none, and the
\* track flags; and between two calls the total is -1 exactly when the
\* duration is -1.0.
OpenedMetadata ==
    /\ (th.ctl.pc = "open_ret" /\ th.ctl.ok) =>
          /\ th.ctl.durationMs > 0 => mediaDuration = th.ctl.durationMs
          /\ th.ctl.durationMs <= 0 =>
                (mediaDuration = 0 - 1 /\ totalAudioSamples = 0 - 1)
          /\ hasAudioStream = th.ctl.tracks.audio
          /\ hasVideoStream = (th.ctl.tracks.video # <<>>)
    /\ CtlIdle => (totalAudioSamples = 0 - 1 <=> mediaDuration = 0 - 1)

\* C32 as stated (SpecOpen): after a successful open(), a parsed duration
\* d > 0 ms gives getTotalDuration() = d / 1000 and getTotalSamples() =
\* floor (d / 1000 * sampleRate); d <= 0 gives -1.0 and -1; hasAudio() and
\* hasVideo() are true exactly when the track list holds a track of the type;
\* and after any completed operation getTotalSamples() is -1 if and only if
\* getTotalDuration() is -1.0.
OpenPublishesFloor ==
    /\ OpenedMetadata
    /\ (th.ctl.pc = "open_ret" /\ th.ctl.ok /\ th.ctl.durationMs > 0) =>
          totalAudioSamples = (th.ctl.durationMs * SampleRate) \div 1000

\* C32 (SpecOpen), amended: the same, with getTotalSamples() the double
\* product d / 1000.0 * sampleRate cut to an integer: floor (d * sampleRate /
\* 1000), or one less where d * sampleRate / 1000 is a whole number above 0.
OpenPublishesTruncatedProduct ==
    /\ OpenedMetadata
    /\ (th.ctl.pc = "open_ret" /\ th.ctl.ok /\ th.ctl.durationMs > 0) =>
          totalAudioSamples \in Truncations(th.ctl.durationMs * SampleRate, 1000)

\* C32 witness: a successful open() of a media with a video track and no
\* audio track returns with a total one below the exact quotient.
OpenedVideoOnlyBelowTheFloor ==
    /\ th.ctl.pc = "open_ret"
    /\ th.ctl.ok
    /\ th.ctl.durationMs > 0
    /\ totalAudioSamples = (th.ctl.durationMs * SampleRate) \div 1000 - 1
    /\ hasVideoStream
    /\ ~hasAudioStream

\* C33 (Spec): pause() changes the playing flag and nothing else: the ring's
\* cursors, count and contents, the current-sample counter, seekGeneration,
\* the loaded media, the metadata, the engine's position and the frame store
\* are what they were; and a play() that follows, while the engine holds a
\* position, sets the flag and leaves the same buffered audio and position.
PauseChangesOnlyTheFlag ==
    [][/\ (th.ctl.pc = "idle" /\ th'.ctl.pc = "pause_ret") =>
             /\ Adapter' = <<[Observed EXCEPT !.playing = isCurrentlyPlaying'],
                             frames>>
             /\ isCurrentlyPlaying' = (isCurrentlyPlaying /\ ~mediaPlayer)
       /\ (th.ctl.pc = "pause_ret" /\ th'.ctl.pc = "idle") => Adapter' = Adapter
       /\ (/\ th.ctl.pc = "idle"
           /\ th'.ctl.pc = "play_ret"
           /\ ~isCurrentlyPlaying
           /\ engineTime >= 0) =>
             Adapter' = <<[Observed EXCEPT !.playing = isCurrentlyPlaying'],
                          frames>>]_vars

\* C33 witness: play() has returned after a pause() that was called while
\* playing, with audio buffered and the position past 0.
ResumedWithAudioBuffered ==
    /\ th.ctl.pc = "play_ret"
    /\ th.ctl.arg = FALSE
    /\ isCurrentlyPlaying
    /\ engineTime >= 0
    /\ availableSamples > 0
    /\ currentAudioSample > 0

\* The frames a picture can be seen as: what the conversion makes of a whole
\* decoded picture or of the zeroed buffer, for n pixels; no pixels at all
\* for the null image.
WholeFrames(n) ==
    {[i \in 1 .. n |-> ConvertPixel(Picture(p, 4 * n), i)] : p \in 1 .. MaxPictures}
        \cup {[i \in 1 .. n |-> [o \in 0 .. 3 |-> 0]]}

\* C34 (SpecVideo): the image getCurrentVideoFrame() returned never shows a
\* torn frame: its pixels are those of one whole picture at every moment the
\* caller may look at it, and no step of a later display callback changes
\* them.
ReturnedFrameNeverTorn ==
    /\ [](uiFrame.held => UiPixels \in WholeFrames(Len(UiPixels)))
    /\ [][(uiFrame.held /\ th'.vid # th.vid) => UiPixels' = UiPixels]_vars

\* What the getters show of a player without media.
NothingPublished ==
    /\ ~isCurrentlyPlaying
    /\ ~hasAudioStream
    /\ ~hasVideoStream
    /\ mediaDuration = 0 - 1
    /\ totalAudioSamples = 0 - 1

\* C35 as stated (Spec): in every reachable state, those between the steps of
\* close() included, no media loaded implies isPlaying(), hasAudio() and
\* hasVideo() false and getTotalDuration() and getTotalSamples() -1.
NoMediaNothingPublished == ~currentMedia => NothingPublished

\* C35 (Spec), amended: the same in every state but those inside close()
\* between the release of the media handle and the reset of the total, where
\* the track flags, the duration and the total are still those of the media
\* released; the playing flag is false in these too.
NoMediaNothingPublishedOutsideClose ==
    ~currentMedia =>
        /\ ~isCurrentlyPlaying
        /\ th.ctl.pc \notin {"close_video", "close_audio", "close_duration",
                              "close_total"} => NothingPublished

\* C35 witness: the close() at the start of an open() has released a loaded
\* media with a video track (its size is reset next) and has reset what was
\* published of it.
ReopenClosedLoadedMedia ==
    /\ th.ctl.pc = "close_pos"
    /\ th.ctl.op = "open"
    /\ videoWidth > 0
    /\ ~currentMedia
    /\ NothingPublished

\* C36 (SpecRegistered): after a successful open() and play() of a media with
\* an audio stream, with the engine calling the callbacks registered on the
\* player only, some pull of the audio device eventually finds samples
\* available and goes on to copy decoded audio out.
DecodedAudioReachesDevice ==
    (isCurrentlyPlaying /\ hasAudioStream) ~> (th.aud.pc = "a_rp")

\* C38 (SpecNullChannel): the audio-device callback never writes through a
\* null output-channel pointer: whatever entries of the output array are
\* null, whether the player plays and however full the ring is, the channel
\* the copy loop is about to write is not null, and no write went through a
\* null pointer.
NoWriteThroughNullChannel ==
    /\ ~fault
    /\ th.aud.pc = "a_copy" => out[th.aud.ch + 1] # NullChannel

\* The frames stored and unread that were decoded after the engine's flush
\* for the seek, with what the ring holds of each.
PostSeekAudio ==
    {<<unread[k].f, data[0][unread[k].cell], data[1][unread[k].cell]>> :
        k \in {j \in DOMAIN unread : postSeek > 0 /\ unread[j].f >= postSeek}}

\* C37 (SpecSeekFlush): a seek never discards post-seek audio: no step of
\* the clear() that seekToTime runs after the engine's time-set drops, or
\* overwrites with silence, a frame the decoder wrote after the engine's
\* flush for that seek.
SeekClearKeepsPostSeekAudio ==
    [][(th.ctl.pc \in {"clr_wp", "clr_rp", "clr_av", "clr_data"}
          /\ th'.ctl # th.ctl)
         => PostSeekAudio \subseteq PostSeekAudio']_vars

\* ------------------------------------------------------------ SpecReopen
\* SpecReopen: media with and without a video track are opened, played and
\* closed one after the other, and the engine sets its video output up, with
\* a small or a wide picture, before it locks and displays pictures. The
\* conversion is followed for the small pictures only.
FormatSizes ==
    ((1 .. MaxVideoWidth) \X (1 .. MaxVideoHeight))
       \cup {<<WideVideoWidth, WideVideoHeight>>}

SmallPicture == videoWidth <= MaxVideoWidth /\ videoHeight <= MaxVideoHeight

NextReopen ==
    \/ Open \/ Close \/ Stop \/ Play \/ PlayPauseReturn
    \/ StopStep
    \/ CloseReleaseMedia \/ CloseResetHasVideo \/ CloseResetHasAudio
    \/ CloseResetDuration \/ CloseResetTotalSamples
    \/ CloseResetPosition \/ CloseResetVideoSize \/ CloseReturn
    \/ \E exists \in BOOLEAN, created \in BOOLEAN :
          OpenCreateMedia(exists, created, TRUE)
    \/ OpenPublishDuration(0 - 1)
    \/ \E audio \in BOOLEAN, video \in VideoTracks : OpenReadTracks(audio, video)
    \/ OpenPublishHasAudio \/ OpenPublishHasVideo \/ OpenNotifyMediaReady
    \/ OpenReturn
    \/ \E size \in FormatSizes : VideoFormatCallback(size[1], size[2])
    \/ \E p \in 1 .. MaxPictures : VideoLockCallback(p)
    \/ SmallPicture /\ VideoDisplayCallback
    \/ VideoConvertPixel
    \/ VideoCallbackReturn

SpecReopen == Init /\ [][NextReopen]_vars

\* C39: whenever the display conversion reads the video frame buffer (the
\* engine's video output is set up, the buffer is non-null and of a size
\* other than 0, the width and the height are positive), the allocated size
\* is at least videoWidth * videoHeight * 4, and the conversion reads no
\* pixel beyond the buffer.
DisplayReadsWithinBuffer ==
    /\ (/\ th.vid.pc = "idle"
        /\ VideoOutputOpen
        /\ ~videoFrameBuffer.null
        /\ videoFrameBufferSize > 0
        /\ videoWidth > 0
        /\ videoHeight > 0)
          => videoFrameBufferSize \div 4 >= videoWidth * videoHeight
    /\ th.vid.pc = "v_convert" => 4 * th.vid.i <= videoFrameBufferSize

\* -------------------------------------------------------------- SpecHost
\* setAudioDevice: the pointer is kept, and a manager that is given gets the
\* player as an audio callback. Nothing of the player takes it out again.
SetAudioDevice(deviceManager) ==
    /\ th.ctl.pc = "idle"
    /\ audioDeviceManager' =
          [ptr |-> deviceManager,
           registered |-> audioDeviceManager.registered \/ deviceManager]
    /\ UNCHANGED <<engineEnded, polled, videoCallbacks, fault, teardown, postSeek,
                   voutOpen, videoComponent, pendingResize, frames, ext, player,
                   ring, out, th, nextFrame, hist>>

\* The host takes the player out of its device manager
\* (audioDeviceManager.removeAudioCallback (mediaPlayer.get())).
HostRemovesAudioCallback ==
    /\ th.ctl.pc = "idle"
    /\ audioDeviceManager.registered
    /\ audioDeviceManager' = [audioDeviceManager EXCEPT !.registered = FALSE]
    /\ UNCHANGED <<engineEnded, polled, videoCallbacks, fault, teardown, postSeek,
                   voutOpen, videoComponent, pendingResize, frames, ext, player,
                   ring, out, th, nextFrame, hist>>

\* setVideoComponent: the component is kept; setupVideoOutput changes nothing.
SetVideoComponent(component) ==
    /\ th.ctl.pc = "idle"
    /\ videoComponent' = component
    /\ UNCHANGED <<engineEnded, polled, videoCallbacks, fault, teardown, postSeek,
                   voutOpen, audioDeviceManager, pendingResize, frames, ext,
                   player, ring, out, th, nextFrame, hist>>

\* The message thread, which is the caller's, delivers a message of
\* updateVideoSize between two calls: the lambda reads this->videoComponent,
\* of a player that may be gone.
ResizeMessage ==
    /\ th.ctl.pc \in {"idle", "destroyed"}
    /\ pendingResize > 0
    /\ pendingResize' = pendingResize - 1
    /\ fault' = (fault \/ th.ctl.pc = "destroyed")
    /\ UNCHANGED <<engineEnded, polled, videoCallbacks, teardown, postSeek,
                   voutOpen, audioDeviceManager, videoComponent, frames, ext,
                   player, ring, out, th, nextFrame, hist>>

\* SpecHost: the host gives the playing player a device manager and a video
\* component, the engine sets its video output up, the message thread
\* delivers the resize messages, and at last the host destroys the player.
NextHost ==
    \/ \E deviceManager \in BOOLEAN : SetAudioDevice(deviceManager)
    \/ HostRemovesAudioCallback
    \/ \E component \in BOOLEAN : SetVideoComponent(component)
    \/ \E width \in 1 .. MaxVideoWidth, height \in 1 .. MaxVideoHeight :
          VideoFormatCallback(width, height)
    \/ VideoCallbackReturn
    \/ ResizeMessage
    \/ Stop
    \/ Destroy
    \/ DestroyStep

SpecHost == InitVideo /\ [][NextHost]_vars

\* C40: after the destructor has completed, the player is not registered as
\* an audio callback on a device manager, and no resize message that
\* captured the player is pending.
NothingReferencesDestroyedPlayer ==
    th.ctl.pc = "destroyed"
        => ~audioDeviceManager.registered /\ pendingResize = 0

====
